---- MODULE Spec2Model ----
(***************************************************************************)
(* Flashcard drill trainer: the Koch progressive-unlock scheduler in its   *)
(* persisted variant (kochState per dictionary, written to localStorage)   *)
(* and in its auto-advance variant (kochIndex/answers in component state,  *)
(* dictionary switch, interval timer), and the weight function of the      *)
(* weighted-recall scheduler.                                              *)
(*                                                                         *)
(* A step of the model is one dispatch of the host's event loop: a click   *)
(* handler, a timer or animation-frame callback, or the completion of a    *)
(* fetch, together with the re-render and the effects it triggers.         *)
(***************************************************************************)
EXTENDS Integers, Sequences, FiniteSets, TLC

VARIABLES
    variant,          \* which trainer component is mounted
    cardsSv,          \* persisted variant: parsed deck of dictionary sv
    kochState,        \* persisted variant: KochState
    storage,          \* persisted variant: localStorage[STORAGE_KEY]
    loading,          \* persisted variant: state of the load effect's fetch
    rafId,            \* a pending requestAnimationFrame of the selection effect
    current,          \* the card on screen, or Null
    showTranslation,  \* whether the translation is visible
    revealTimer,      \* the timeout held by the reveal ref is pending
    timeouts,         \* the reveal timeouts pending in the browser's timer table
    cards,            \* auto variant: parsed deck in use
    dictionary,       \* auto variant: selected dictionary
    kochIndex,        \* auto variant: unlocked count
    answers,          \* auto variant: rolling window
    intervalRef,      \* auto variant: the auto-advance setInterval is armed
    intervals,        \* auto variant: the intervals armed in the timer table
    inFlight,         \* auto variant: dictionaries whose fetch has not resolved
    switches,         \* auto variant: dictionary switches so far (bounds the run)
    wStat,            \* weight function: the optional stat handed to getWeight
    wNow,             \* weight function: Date.now() at the call, in hours
    wOut,             \* weight function: the value returned
    pWeights,         \* weighted pick: the weights handed to pickWeighted
    pRnd,             \* weighted pick: Math.random(), in 1/DrawResolution
    pOut,             \* weighted pick: the item returned
    txt,              \* parser: the lines of the source text handed to the parsers
    parsed,           \* parser: the decks returned, by parser
    cardsOf,          \* weighted trainer: cardsSv, cardsSv2, cardsEn by dictionary
    dictLang,         \* weighted trainer: the state dictionaryLang
    history,          \* weighted trainer: HistoryState
    isLoading,        \* weighted trainer: the load effect has not finished
    error,            \* weighted trainer: the load effect failed
    stored,           \* weighted trainer: localStorage[STORAGE_KEY]
    storedDict,       \* weighted trainer: localStorage[DICTIONARY_KEY]
    clock,            \* weighted trainer: Date.now(), in half days
    storeOk,          \* weighted trainer: localStorage.setItem does not throw
    performed,        \* weighted trainer: calls of applyAnswer on a current item
    tapState,         \* tap game: the state of type GameState
    startTime,        \* tap game: Date.now() when the screen turned green
    reactionTime,     \* tap game: the measured time, or None
    delayTimer,       \* tap game: pending timeouts of the waiting effect
    tapNow,           \* tap game: Date.now()
    initStep,         \* manual trainer: where init() of the mount effect stands
    allPairs,         \* manual trainer: the 20 pairs selected from the file
    activePairs,      \* manual trainer: the pairs in the presentation
    currentPair,      \* manual trainer: the pair on screen, or Null
    showRight,        \* manual trainer: the right cell is revealed
    ready,            \* manual trainer: loadWords() has finished
    failed,           \* manual trainer: the state error
    previousIndex,    \* manual trainer: the ref of pickRandom, or None
    loopTimeout,      \* manual trainer: the timeout of loopTimeout is pending
    stepTimeouts      \* manual trainer: pending reveal and blank timeouts

varsP == <<cardsSv, kochState, storage, loading>>
varsA == <<cards, dictionary, kochIndex, answers, intervalRef, intervals,
           inFlight, switches>>
varsS == <<rafId, current, showTranslation, revealTimer, timeouts>>
varsK == <<pWeights, pRnd, pOut, txt, parsed>>
varsR == <<cardsOf, dictLang, history, isLoading, error, stored, storedDict,
           clock, storeOk, performed>>
varsG == <<tapState, startTime, reactionTime, delayTimer, tapNow>>
varsM == <<initStep, allPairs, activePairs, currentPair, showRight, ready,
           failed, previousIndex, loopTimeout, stepTimeouts>>
\* the components that are no dictionary trainer
varsO == <<varsG, varsM>>
varsW == <<wStat, wNow, wOut, varsK, varsR, varsO>>
vars == <<variant, varsP, varsA, varsS, varsW>>

----------------------------------------------------------------------------
(* Bounds of the model *)

MaxDeckP == 4       \* persisted variant: a source parses to at most MaxDeckP cards
MaxDeckA == 5       \* auto variant: a source parses to at most MaxDeckA cards
MissSpan == 4       \* a window opens with at most MissSpan "unknown" outcomes
MaxSwitch == 1      \* dictionary switches in one session of the auto variant
MaxUnknown == 4     \* scenario runs: "unknown" outcomes among the first window
ScenarioDeck == 3   \* scenario runs: size of the deck
MaxCount == 8       \* weight function: known and unknown counts of a stat
MaxClock == 6       \* weight function: clock readings, in half days
MaxItems == 3       \* weighted pick: length of the item list
DrawResolution == 4  \* Math.random() returns a multiple of 1/DrawResolution
MaxDeckW == 2       \* weighted trainer: cards of the first source
MaxAnswers == 2     \* weighted trainer: answers recorded in a history
MaxNow == 2         \* weighted trainer: clock readings, in half days
MaxTokens == 5      \* parser: a source line is made of at most MaxTokens tokens
MaxDeckT == 2       \* timed variant: cards of a parsed deck
MaxSwitchT == 2     \* timed variant: presses of Switch Database in a run
MaxTapClock == 6    \* tap game: readings of Date.now()
MaxMore == 5        \* manual trainer: presses after the first, where bounded

(* Program constants *)

KOCH_START_SIZE == 2
KOCH_WINDOW == 20
KOCH_THRESHOLD_PCT == 85     \* KOCH_THRESHOLD = 0.85, in percent
DefaultKochIndex == 2        \* the literal of loadKochState's default state

Null == <<>>                 \* no card (null)
None == <<>>                 \* an absent optional value (undefined)
Some(x) == <<x>>             \* a present optional value
NoBlob == "absent"
RawNull == <<>>            \* getItem returned null
RawEmpty == <<"">>         \* the stored text is empty
RawMalformed == <<"{">>    \* the stored text is not JSON
Thrown == [threw |-> "SyntaxError"]   \* JSON.parse threw, nothing caught it
DictionaryLang == {"sv", "sv2", "en"}
dictionaryLang == "sv"       \* the persisted variant never changes it

----------------------------------------------------------------------------
(* Array helpers, as JavaScript computes them *)

Min(a, b) == IF a < b THEN a ELSE b
Max(a, b) == IF a > b THEN a ELSE b

\* arr.slice(0, k)
SliceTo(arr, k) ==
    IF k >= 0 THEN SubSeq(arr, 1, Min(k, Len(arr)))
    ELSE SubSeq(arr, 1, Max(Len(arr) + k, 0))

\* arr.slice(-n), n > 0
SliceLast(arr, n) ==
    IF Len(arr) <= n THEN arr ELSE SubSeq(arr, Len(arr) - n + 1, Len(arr))

\* arr.filter(a => a).length
CountTrue(arr) == Cardinality({i \in 1..Len(arr) : arr[i]})

\* the deck a source of n usable lines parses to: cards of dictionary d,
\* in source order
Deck(d, n) == [i \in 1..n |-> <<d, i>>]

----------------------------------------------------------------------------
(* The browser's timer table.  The pending timers of one kind are counted in  *)
(* two groups: those armed in or after the dispatch that put the present      *)
(* value of current on screen (this), and those armed before it (prev).       *)
(* Timers of one kind have one delay, so they fire in the order of arming,    *)
(* and the timer a ref holds is the one armed last.                           *)

NoTimers == [this |-> 0, prev |-> 0]

Pending(t) == t.this + t.prev

\* window.setTimeout / window.setInterval: one more timer is pending
Armed(t) == [t EXCEPT !.this = @ + 1]

\* if (ref.current) clearTimeout(ref.current): the timer held by the ref
\* leaves the table when it is still pending
Cleared(t, refPending) ==
    IF ~refPending THEN t
    ELSE IF t.this > 0 THEN [t EXCEPT !.this = @ - 1]
    ELSE [t EXCEPT !.prev = @ - 1]

\* setCurrent(next) presents an item: what is pending was armed before it
Aged(t) == [this |-> 0, prev |-> t.this + t.prev]

\* the timer armed first fires and leaves the table
Fired(t) ==
    IF t.prev > 0 THEN [t EXCEPT !.prev = @ - 1] ELSE [t EXCEPT !.this = @ - 1]

----------------------------------------------------------------------------
(* Persisted variant *)

\* evaluateProgress with the threshold compared strictly
evaluateProgressStrict(list) ==
    IF Len(list) < KOCH_WINDOW THEN FALSE
    ELSE CountTrue(SliceLast(list, KOCH_WINDOW)) * 100
            > KOCH_THRESHOLD_PCT * KOCH_WINDOW

\* evaluateProgress that waits for more than KOCH_WINDOW outcomes
evaluateProgressLate(list) ==
    IF Len(list) <= KOCH_WINDOW THEN FALSE
    ELSE CountTrue(SliceLast(list, KOCH_WINDOW)) * 100
            >= KOCH_THRESHOLD_PCT * KOCH_WINDOW

\* recent.filter(a => a).length / KOCH_WINDOW >= KOCH_THRESHOLD, exactly:
\* count/20 >= 0.85 iff count * 100 >= 85 * 20 (17/20 rounds to the double 0.85)
evaluateProgress(list) ==
    IF Len(list) < KOCH_WINDOW THEN FALSE
    ELSE CountTrue(SliceLast(list, KOCH_WINDOW)) * 100
            >= KOCH_THRESHOLD_PCT * KOCH_WINDOW

DefaultKochState ==
    [kochIndexByDict |-> [d \in DictionaryLang |-> DefaultKochIndex],
     recentAnswersByDict |-> [d \in DictionaryLang |-> <<>>]]

\* JSON.stringify(state): the text is modelled by its two members
Stringify(state) ==
    <<"json", state.kochIndexByDict, state.recentAnswersByDict>>

\* JSON.parse(raw) as KochState
ParseKoch(raw) ==
    IF raw[1] = "json"
    THEN [kochIndexByDict |-> raw[2], recentAnswersByDict |-> raw[3]]
    ELSE Thrown

\* loadKochState that ignores the stored blob
loadKochStateFresh(raw) == DefaultKochState

\* if (!raw) return default; return JSON.parse(raw)
loadKochState(raw) ==
    IF raw = RawNull \/ raw = RawEmpty THEN DefaultKochState
    ELSE ParseKoch(raw)

saveKochState(state) == Stringify(state)

\* kochState.kochIndexByDict[dictionaryLang] ?? KOCH_START_SIZE
kochIndexP(ks) ==
    IF dictionaryLang \in DOMAIN ks.kochIndexByDict
    THEN ks.kochIndexByDict[dictionaryLang] ELSE KOCH_START_SIZE

\* useMemo(() => currentCards.slice(0, kochIndex))
activeCardsP(cs, ks) == SliceTo(cs, kochIndexP(ks))

\* the reveal effect, deps [current]: runs when current changed to a card;
\* its cleanup clears the timer of the previous run
RevealEffect(next) ==
    IF next = current THEN revealTimer
    ELSE next # Null

\* the reveal effect arming its timeout without clearing the one pending
RevealTimeoutsKept(next) ==
    IF next = current THEN Aged(timeouts)
    ELSE IF next # Null THEN Armed(Aged(timeouts))
    ELSE Aged(timeouts)

\* the timer table after the reveal effect, deps [current]: no run when the
\* card set is the card on screen, so what is pending stays pending; else the
\* cleanup clears the timeout of the ref and a run for a card arms one
RevealTimeouts(next) ==
    IF next = current THEN Aged(timeouts)
    ELSE IF next # Null THEN Armed(Aged(Cleared(timeouts, revealTimer)))
    ELSE Aged(Cleared(timeouts, revealTimer))

\* the selection effect, deps [activeCards]: runs when activeCards is a new
\* array; its cleanup cancels the previous frame request
SelectionEffect(changed, active) ==
    IF changed THEN Len(active) # 0 ELSE rafId

\* load effect: Promise.all resolved, the three decks are set
LoadDoneP(n) ==
    /\ variant = "persist"
    /\ loading = "fetching"
    /\ loading' = "done"
    /\ cardsSv' = Deck("sv", n)
    /\ rafId' = SelectionEffect(TRUE, activeCardsP(cardsSv', kochState))
    /\ UNCHANGED <<kochState, storage, current, showTranslation, revealTimer,
                   timeouts>>
    /\ UNCHANGED <<variant, varsA, varsW>>

\* load effect: a fetch failed, load() rejects and nothing is set
LoadFailP ==
    /\ variant = "persist"
    /\ loading = "fetching"
    /\ loading' = "failed"
    /\ UNCHANGED <<cardsSv, kochState, storage, varsS>>
    /\ UNCHANGED <<variant, varsA, varsW>>

\* the animation frame of the selection effect: pickRandom, setCurrent
RafFireP(i) ==
    /\ variant = "persist"
    /\ rafId
    /\ LET active == activeCardsP(cardsSv, kochState)
       IN /\ i \in 1..Len(active)
          /\ current' = active[i]
          /\ revealTimer' = RevealEffect(active[i])
          /\ timeouts' = RevealTimeouts(active[i])
    /\ rafId' = FALSE
    /\ showTranslation' = FALSE
    /\ UNCHANGED <<varsP, variant, varsA, varsW>>

\* applyAnswer(known), next = activeCards[i] of the render that handled the
\* click (i = 0 when activeCards is empty and pickRandom returns null)
applyAnswerP(known, i) ==
    /\ variant = "persist"
    /\ current # Null
    /\ LET prevAnswers == kochState.recentAnswersByDict[dictionaryLang]
           updatedAnswers == Append(prevAnswers, known)
           idx == kochIndexP(kochState)
           updatedIndex ==
               IF evaluateProgress(updatedAnswers) /\ idx < Len(cardsSv)
               THEN idx + 1 ELSE idx
           newState ==
               [kochIndexByDict |->
                    [kochState.kochIndexByDict
                        EXCEPT ![dictionaryLang] = updatedIndex],
                recentAnswersByDict |->
                    [kochState.recentAnswersByDict
                        EXCEPT ![dictionaryLang] =
                            SliceLast(updatedAnswers, KOCH_WINDOW)]]
           active == activeCardsP(cardsSv, kochState)
           next == IF Len(active) = 0 THEN Null ELSE active[i]
       IN /\ IF Len(active) = 0 THEN i = 0 ELSE i \in 1..Len(active)
          /\ kochState' = newState
          /\ storage' = saveKochState(newState)
          /\ current' = next
          /\ revealTimer' = RevealEffect(next)
          /\ timeouts' = RevealTimeouts(next)
          /\ rafId' = SelectionEffect(updatedIndex # idx,
                                      activeCardsP(cardsSv, newState))
    /\ showTranslation' = FALSE
    /\ UNCHANGED <<cardsSv, loading, variant, varsA, varsW>>

\* the reveal timeout fires
RevealFire ==
    /\ Pending(timeouts) > 0
    /\ timeouts' = Fired(timeouts)
    /\ revealTimer' = (Pending(timeouts') > 0)
    /\ showTranslation' = TRUE
    /\ UNCHANGED <<rafId, current, varsP, variant, varsA, varsW>>

\* the page is left and opened again: effect cleanups run, the component
\* mounts with fresh state and kochState is read back from storage
RemountP ==
    /\ variant = "persist"
    /\ loading # "fetching"
    /\ cardsSv' = <<>>
    /\ kochState' = loadKochState(storage)
    /\ loading' = "fetching"
    /\ rafId' = FALSE
    /\ current' = Null
    /\ showTranslation' = FALSE
    /\ revealTimer' = FALSE
    /\ timeouts' = NoTimers
    /\ UNCHANGED <<storage, variant, varsA, varsW>>

----------------------------------------------------------------------------
(* Auto-advance variant *)

KOCH_START == 4

\* useMemo(() => cards.slice(0, kochIndex))
activeCardsA(cs, k) == SliceTo(cs, k)

\* the selection effect of the auto variant, deps [activeCards, intervalSec],
\* after a render with the deck cs and the unlocked count k, t being the
\* reveal timeouts left by the cleanup: the cleanup of the previous run cancels
\* the frame request, the interval and the reveal timer; the run returns early
\* on an empty activeCards, else requests a frame and arms the interval
AutoEffect(cs, k, t) ==
    /\ rafId' = (Len(activeCardsA(cs, k)) # 0)
    /\ intervalRef' = (Len(activeCardsA(cs, k)) # 0)
    /\ intervals' = IF Len(activeCardsA(cs, k)) # 0
                    THEN Armed(Cleared(intervals, intervalRef))
                    ELSE Cleared(intervals, intervalRef)
    /\ revealTimer' = FALSE
    /\ timeouts' = t

\* load effect: the fetch started for dictionary d resolves, setCards
LoadDoneA(d, n) ==
    /\ variant = "auto"
    /\ d \in inFlight
    /\ inFlight' = inFlight \ {d}
    /\ cards' = Deck(d, n)
    /\ AutoEffect(cards', kochIndex, Cleared(timeouts, revealTimer))
    /\ UNCHANGED <<dictionary, kochIndex, answers, current, showTranslation,
                   switches>>
    /\ UNCHANGED <<variant, varsP, varsW>>

\* load effect: the fetch started for dictionary d rejects
LoadFailA(d) ==
    /\ variant = "auto"
    /\ d \in inFlight
    /\ inFlight' = inFlight \ {d}
    /\ UNCHANGED <<cards, dictionary, kochIndex, answers, intervalRef,
                   intervals, switches, varsS>>
    /\ UNCHANGED <<variant, varsP, varsW>>

\* nextWord() arming its timeout without clearing the one of revealRef
rearmRevealKept(t, refPending) == Armed(Aged(t))

\* nextWord(), its timer part: if (revealRef.current !== null) clearTimeout,
\* then revealRef.current = window.setTimeout(...)
rearmReveal(t, refPending) == Armed(Aged(Cleared(t, refPending)))

\* nextWord() picking from the whole deck instead of activeCards
nextWordAll(i) ==
    /\ IF Len(cards) = 0 THEN i = 0 ELSE i \in 1..Len(cards)
    /\ current' = IF Len(cards) = 0 THEN Null ELSE cards[i]
    /\ showTranslation' = FALSE

\* nextWord() with pickRandom() = activeCards[i]: the state it sets
nextWord(i) ==
    LET active == activeCardsA(cards, kochIndex)
    IN /\ IF Len(active) = 0 THEN i = 0 ELSE i \in 1..Len(active)
       /\ current' = IF Len(active) = 0 THEN Null ELSE active[i]
       /\ showTranslation' = FALSE

\* the animation frame of the selection effect calls nextWord()
RafFireA(i) ==
    /\ variant = "auto"
    /\ rafId
    /\ nextWord(i)
    /\ revealTimer' = TRUE
    /\ timeouts' = rearmReveal(timeouts, revealTimer)
    /\ rafId' = FALSE
    /\ UNCHANGED <<cards, dictionary, kochIndex, answers, intervalRef,
                   intervals, inFlight, switches>>
    /\ UNCHANGED <<variant, varsP, varsW>>

\* the auto-advance interval calls nextWord()
IntervalFire(i) ==
    /\ variant = "auto"
    /\ intervalRef
    /\ nextWord(i)
    /\ revealTimer' = TRUE
    /\ timeouts' = rearmReveal(timeouts, revealTimer)
    /\ intervals' = [this |-> 1, prev |-> Pending(intervals) - 1]
    /\ UNCHANGED <<cards, dictionary, kochIndex, answers, intervalRef, inFlight,
                   switches, rafId>>
    /\ UNCHANGED <<variant, varsP, varsW>>

\* applyAnswer(correct); the buttons exist only while a card is on screen
applyAnswerA(correct, i) ==
    /\ variant = "auto"
    /\ current # Null
    /\ LET updated == SliceLast(Append(answers, correct), KOCH_WINDOW)
       IN IF evaluateProgress(updated) /\ kochIndex < Len(cards)
          THEN /\ kochIndex' = kochIndex + 1
               /\ answers' = <<>>
               /\ nextWord(i)
               /\ AutoEffect(cards, kochIndex',
                             Cleared(rearmReveal(timeouts, revealTimer), TRUE))
          ELSE /\ answers' = updated
               /\ nextWord(i)
               /\ revealTimer' = TRUE
               /\ timeouts' = rearmReveal(timeouts, revealTimer)
               /\ intervals' = Aged(intervals)
               /\ UNCHANGED <<kochIndex, rafId, intervalRef>>
    /\ UNCHANGED <<cards, dictionary, inFlight, switches>>
    /\ UNCHANGED <<variant, varsP, varsW>>

\* switchDictionary(next) for next # dictionary (the same dictionary only
\* toggles the display direction)
switchDictionary(next) ==
    /\ variant = "auto"
    /\ current # Null
    /\ next # dictionary
    /\ dictionary' = next
    /\ kochIndex' = KOCH_START
    /\ answers' = <<>>
    /\ current' = Null
    /\ showTranslation' = FALSE
    /\ inFlight' = inFlight \cup {next}
    /\ switches' = switches + 1
    /\ IF kochIndex # KOCH_START
       THEN AutoEffect(cards, KOCH_START, Cleared(timeouts, revealTimer))
       ELSE /\ intervalRef' = FALSE
            /\ intervals' = Cleared(intervals, intervalRef)
            /\ revealTimer' = FALSE
            /\ timeouts' = Cleared(timeouts, revealTimer)
            /\ UNCHANGED rafId
    /\ UNCHANGED cards
    /\ UNCHANGED <<variant, varsP, varsW>>

\* the speed slider sets another intervalSec: the selection effect runs again
setIntervalSec ==
    /\ variant = "auto"
    /\ current # Null
    /\ AutoEffect(cards, kochIndex, Cleared(timeouts, revealTimer))
    /\ UNCHANGED <<cards, dictionary, kochIndex, answers, inFlight, switches,
                   current, showTranslation>>
    /\ UNCHANGED <<variant, varsP, varsW>>

----------------------------------------------------------------------------
(* Timed variant: cards change on the interval alone, there are no answer    *)
(* buttons and no unlocking; one button steps through the dictionaries       *)

\* the dictionary that follows d on the Switch Database button
NextDictionary(d) ==
    IF d = "sv" THEN "sv2" ELSE IF d = "sv2" THEN "en" ELSE "sv"

\* changeWord() with pickRandom() = cs[i]: setCurrent, setShowTranslation,
\* clearTimeout of revealRef and a new timeout
changeWord(cs, i) ==
    /\ i \in 1..Len(cs)
    /\ current' = cs[i]
    /\ showTranslation' = FALSE
    /\ revealTimer' = TRUE
    /\ timeouts' = rearmReveal(timeouts, revealTimer)

\* the word switching effect, deps [cards, intervalSec], after a render with
\* the deck cs: the cleanup of the previous run clears the interval and the
\* reveal timeout; the run returns early on an empty deck, else calls
\* changeWord() and arms the interval
SwitchingEffect(cs, i) ==
    IF Len(cs) = 0
    THEN /\ i = 0
         /\ intervalRef' = FALSE
         /\ intervals' = Cleared(intervals, intervalRef)
         /\ revealTimer' = FALSE
         /\ timeouts' = Cleared(timeouts, revealTimer)
         /\ UNCHANGED <<current, showTranslation>>
    ELSE /\ changeWord(cs, i)
         /\ intervalRef' = TRUE
         /\ intervals' = Armed(Cleared(intervals, intervalRef))

\* load effect: the fetch started for dictionary d resolves, setCards
LoadDoneT(d, n, i) ==
    /\ variant = "timed"
    /\ d \in inFlight
    /\ inFlight' = inFlight \ {d}
    /\ cards' = Deck(d, n)
    /\ SwitchingEffect(cards', i)
    /\ UNCHANGED <<dictionary, kochIndex, answers, switches, rafId>>
    /\ UNCHANGED <<variant, varsP, varsW>>

\* load effect: the fetch started for dictionary d rejects
LoadFailT(d) ==
    /\ variant = "timed"
    /\ d \in inFlight
    /\ inFlight' = inFlight \ {d}
    /\ UNCHANGED <<cards, dictionary, kochIndex, answers, intervalRef,
                   intervals, switches>>
    /\ UNCHANGED <<variant, varsP, varsS, varsW>>

\* the interval calls changeWord()
IntervalFireT(i) ==
    /\ variant = "timed"
    /\ intervalRef
    /\ changeWord(cards, i)
    /\ intervals' = [this |-> 1, prev |-> Pending(intervals) - 1]
    /\ UNCHANGED <<cards, dictionary, kochIndex, answers, intervalRef, inFlight,
                   switches, rafId>>
    /\ UNCHANGED <<variant, varsP, varsW>>

\* Switch Database: setDictionary(the next one); the load effect, deps
\* [dictionary], starts the fetch; the button exists while a card is on screen
setDictionary ==
    /\ variant = "timed"
    /\ current # Null
    /\ dictionary' = NextDictionary(dictionary)
    /\ inFlight' = inFlight \cup {dictionary'}
    /\ switches' = switches + 1
    /\ UNCHANGED <<cards, kochIndex, answers, intervalRef, intervals>>
    /\ UNCHANGED <<variant, varsP, varsS, varsW>>

\* the speed slider sets another intervalSec: the switching effect runs again
setIntervalSecT(i) ==
    /\ variant = "timed"
    /\ current # Null
    /\ SwitchingEffect(cards, i)
    /\ UNCHANGED <<cards, dictionary, kochIndex, answers, inFlight, switches,
                   rafId>>
    /\ UNCHANGED <<variant, varsP, varsW>>

----------------------------------------------------------------------------
(* Weight function of the weighted-recall scheduler.  Weights are held in     *)
(* units of 1/WeightUnit so that 0.2, 1.5 and hours/24 are exact integers;    *)
(* clock readings are in steps of ClockHours hours.                           *)

HoursPerDay == 24
WeightUnit == 10 * HoursPerDay
ClockHours == HoursPerDay \div 2

\* clamp without the lower bound
clampUpperOnly(n, min, max) == Min(max, n)

\* Math.max(min, Math.min(max, n))
clamp(n, min, max) == Max(min, Min(max, n))

\* getWeight without the final clamp
getWeightUnclamped(stat, now) ==
    IF stat = None THEN 3 * WeightUnit
    ELSE LET hoursSince ==
                 IF stat[1].lastAnswerAt \in {None, Some(0)} THEN 0
                 ELSE (now - stat[1].lastAnswerAt[1]) * ClockHours
             timeBoost ==
                 clamp((hoursSince * WeightUnit) \div HoursPerDay,
                       0, 2 * WeightUnit)
         IN WeightUnit + stat[1].unknown * 3 * WeightUnit
               - (stat[1].known * 3 * WeightUnit) \div 2 + timeBoost

\* getWeight with the boost and the penalty applied to the wrong counts
getWeightSwapped(stat, now) ==
    IF stat = None THEN 3 * WeightUnit
    ELSE LET hoursSince ==
                 IF stat[1].lastAnswerAt \in {None, Some(0)} THEN 0
                 ELSE (now - stat[1].lastAnswerAt[1]) * ClockHours
             timeBoost ==
                 clamp((hoursSince * WeightUnit) \div HoursPerDay,
                       0, 2 * WeightUnit)
         IN clamp(WeightUnit + stat[1].known * 3 * WeightUnit
                     - (stat[1].unknown * 3 * WeightUnit) \div 2 + timeBoost,
                  WeightUnit \div 5, 20 * WeightUnit)

\* getWeight(card, stat) at Date.now() = now; lastAnswerAt is falsy when it
\* is absent or 0
getWeight(stat, now) ==
    IF stat = None THEN 3 * WeightUnit
    ELSE LET base == WeightUnit
             unknownBoost == stat[1].unknown * 3 * WeightUnit
             knownPenalty == (stat[1].known * 3 * WeightUnit) \div 2
             hoursSince ==
                 IF stat[1].lastAnswerAt \in {None, Some(0)} THEN 0
                 ELSE (now - stat[1].lastAnswerAt[1]) * ClockHours
             timeBoost ==
                 clamp((hoursSince * WeightUnit) \div HoursPerDay,
                       0, 2 * WeightUnit)
         IN clamp(base + unknownBoost - knownPenalty + timeBoost,
                  WeightUnit \div 5, 20 * WeightUnit)

\* the Stat values handed to getWeight; a timestamp is a reading of
\* Date.now(), which is positive
Stats ==
    [seen : 0..(2 * MaxCount), known : 0..MaxCount, unknown : 0..MaxCount,
     lastAnswerAt : {None} \cup {Some(t) : t \in 1..MaxClock}]

\* a call getWeight(card, wStat)
CallGetWeight ==
    /\ variant = "weight"
    /\ wOut = None
    /\ wOut' = Some(getWeight(wStat, wNow))
    /\ UNCHANGED <<wStat, wNow, varsK, varsR, varsO, variant, varsP, varsA, varsS>>

----------------------------------------------------------------------------
(* Weighted pick.  Math.random() = rnd / DrawResolution; the running value r  *)
(* of the loop is held multiplied by DrawResolution, in exact arithmetic.     *)

RECURSIVE SumSeq(_)
\* weights.reduce((a, b) => a + b, 0)
SumSeq(ws) == IF Len(ws) = 0 THEN 0 ELSE ws[1] + SumSeq(Tail(ws))

RECURSIVE pickLoopStrict(_, _, _, _)
\* the loop of pickWeighted returning on r < 0
pickLoopStrict(items, weights, r, i) ==
    IF i > Len(items)
    THEN IF Len(items) = 0 THEN Null ELSE items[Len(items)]
    ELSE IF r - weights[i] * DrawResolution < 0 THEN items[i]
         ELSE pickLoopStrict(items, weights,
                             r - weights[i] * DrawResolution, i + 1)

\* pickWeighted that hands a draw on an interval boundary to the next item
pickWeightedStrict(items, weights, rnd) ==
    pickLoopStrict(items, weights, rnd * SumSeq(weights), 1)

RECURSIVE pickLoop(_, _, _, _)
\* for (i ...) { r -= weights[i]; if (r <= 0) return items[i] }
\* return items[items.length - 1]   (undefined for an empty list)
pickLoop(items, weights, r, i) ==
    IF i > Len(items)
    THEN IF Len(items) = 0 THEN Null ELSE items[Len(items)]
    ELSE IF r - weights[i] * DrawResolution <= 0 THEN items[i]
         ELSE pickLoop(items, weights, r - weights[i] * DrawResolution, i + 1)

\* pickWeighted(items, weights) with Math.random() = rnd / DrawResolution
pickWeighted(items, weights, rnd) ==
    pickLoop(items, weights, rnd * SumSeq(weights), 1)

\* weights between 0.2 and 20
WeightSamples ==
    {WeightUnit \div 5, WeightUnit, 3 * WeightUnit, 20 * WeightUnit}

\* the items of a call with n weights
PickItems(n) == Deck("sv", n)

\* a call pickWeighted(items, pWeights)
CallPickWeighted ==
    /\ variant = "pick"
    /\ pOut = None
    /\ pOut' = Some(pickWeighted(PickItems(Len(pWeights)), pWeights, pRnd))
    /\ UNCHANGED <<pWeights, pRnd, txt, parsed, wStat, wNow, wOut, varsR,
                   varsO, variant, varsP, varsA, varsS>>

----------------------------------------------------------------------------
(* Weighted-recall trainer.  Strings that the code takes apart (stat keys)   *)
(* are sequences of characters; a card of the deck is <<dictionary, line>>.   *)

Digits == <<"0", "1", "2", "3", "4", "5", "6", "7", "8", "9">>

\* `${i}-${cs}-${other}` for the card of line i (counted from 0); the lines of
\* every source carry the same two words, so that ids differ by index only
CardId(c) == <<Digits[c[2]], "-", "c", "s", "-", "o">>

DictText(d) ==
    CASE d = "sv" -> <<"s", "v">>
      [] d = "sv2" -> <<"s", "v", "2">>
      [] d = "en" -> <<"e", "n">>

\* key.startsWith(prefix)
StartsWith(key, prefix) ==
    /\ Len(key) >= Len(prefix)
    /\ SubSeq(key, 1, Len(prefix)) = prefix

\* getStatKey without the dictionary
getStatKeyBare(d, cardId) == cardId

\* `${dictionaryLang}-${cardId}`
getStatKey(d, cardId) == DictText(d) \o <<"-">> \o cardId

\* history.statsById[key], undefined when there is none
StatOf(h, key) ==
    IF key \in DOMAIN h.statsById THEN Some(h.statsById[key]) ELSE None

\* the fallback of getInitialHistory at Date.now() = t
DefaultHistory(t) ==
    [statsById |-> <<>>, lastSessionAt |-> t, totalAnswers |-> 0]

\* JSON.stringify(h): the text is modelled by the value it encodes
StringifyHistory(h) == <<"json", h>>

\* safeJsonParse that never reads the text
safeJsonParseFallback(value, fallback) == fallback

\* if (!value) return fallback; try JSON.parse(value) catch return fallback
safeJsonParse(value, fallback) ==
    IF value \in {RawNull, RawEmpty} THEN fallback
    ELSE IF value[1] # "json" THEN fallback
    ELSE value[2]

getInitialHistory(raw, t) == safeJsonParse(raw, DefaultHistory(t))

\* saveHistory writing the history of the render instead of its argument
saveHistoryStale(h) == StringifyHistory(history)

saveHistory(h) == StringifyHistory(h)

getStoredDictionary(v) ==
    IF v = "en" THEN "en" ELSE IF v = "sv2" THEN "sv2" ELSE "sv"

\* getCardsForDict(dictionaryLang, cardsSv, cardsSv2, cardsEn)
currentCards == cardsOf[dictLang]

\* cards.map(c => getWeight(c, h.statsById[getStatKey(d, c.id)])) at
\* Date.now() = t
WeightsFor(cs, d, h, t) ==
    [i \in 1..Len(cs) |-> getWeight(StatOf(h, getStatKey(d, CardId(cs[i]))), t)]

\* pickNext() with Math.random() = k / DrawResolution
pickNext(k) ==
    IF Len(currentCards) = 0 THEN Null
    ELSE pickWeighted(currentCards,
                      WeightsFor(currentCards, dictLang, history, clock), k)

\* nextStat that leaves seen as it was
nextStatSeenKept(prev, answer, t) ==
    [seen |-> prev.seen,
     known |-> prev.known + (IF answer = "known" THEN 1 ELSE 0),
     unknown |-> prev.unknown + (IF answer = "unknown" THEN 1 ELSE 0),
     lastAnswerAt |-> Some(t)]

\* nextStat of applyAnswer
nextStat(prev, answer, t) ==
    [seen |-> prev.seen + 1,
     known |-> prev.known + (IF answer = "known" THEN 1 ELSE 0),
     unknown |-> prev.unknown + (IF answer = "unknown" THEN 1 ELSE 0),
     lastAnswerAt |-> Some(t)]

\* nextHistory that drops the stats of the other items
nextHistoryOnly(h, statKey, st, t) ==
    [statsById |-> [k \in {statKey} |-> st],
     lastSessionAt |-> t,
     totalAnswers |-> h.totalAnswers + 1]

\* nextHistory of applyAnswer
nextHistory(h, statKey, st, t) ==
    [statsById |->
         [k \in DOMAIN h.statsById \cup {statKey} |->
              IF k = statKey THEN st ELSE h.statsById[k]],
     lastSessionAt |-> t,
     totalAnswers |-> h.totalAnswers + 1]

\* clearRevealTimer(): if (revealTimerRef.current) clearTimeout, ref = null
clearRevealTimer(t, refPending) == Cleared(t, refPending)

\* startRevealTimer that arms without clearRevealTimer()
startRevealTimerKept(t, refPending) == Armed(t)

\* startRevealTimer(): clearRevealTimer(), then window.setTimeout
startRevealTimer(t, refPending) == Armed(clearRevealTimer(t, refPending))

\* the variables the weighted trainer does not have
frameR == <<variant, varsP, varsA, rafId, wStat, wNow, wOut, varsK, varsO>>

\* the trainer shows a card and its buttons
Visible == ~isLoading /\ ~error /\ current # Null

\* load effect: the three fetches resolved; sizes gives the number of cards
\* each source parses to, k the draw of the first pick
LoadDoneW(sizes, k) ==
    /\ variant = "recall"
    /\ isLoading
    /\ cardsOf' = [d \in DictionaryLang |-> Deck(d, sizes[d])]
    /\ LET initialCards == cardsOf'[getStoredDictionary(storedDict)]
       IN current' = pickWeighted(initialCards,
                                  [i \in 1..Len(initialCards) |->
                                       getWeight(None, clock)], k)
    /\ showTranslation' = FALSE
    /\ revealTimer' = TRUE
    /\ timeouts' = startRevealTimer(Aged(timeouts), revealTimer)
    /\ isLoading' = FALSE
    /\ UNCHANGED <<dictLang, history, error, stored, storedDict, clock, storeOk,
                   performed>>
    /\ UNCHANGED frameR

\* load effect: a fetch failed
LoadFailW ==
    /\ variant = "recall"
    /\ isLoading
    /\ error' = TRUE
    /\ isLoading' = FALSE
    /\ UNCHANGED <<cardsOf, dictLang, history, stored, storedDict, clock,
                   storeOk, performed, current, showTranslation, revealTimer,
                   timeouts>>
    /\ UNCHANGED frameR

\* handleDictionarySelect(dict) for dict # dictionaryLang (the selected
\* dictionary only toggles the display direction); saveDictionary throws
\* when the store does
handleDictionarySelect(dict, k) ==
    /\ variant = "recall"
    /\ Visible
    /\ dict # dictLang
    /\ dictLang' = dict
    /\ IF ~storeOk
       THEN /\ k = 0
            /\ UNCHANGED <<storedDict, current, showTranslation, revealTimer,
                           timeouts>>
       ELSE /\ storedDict' = dict
            /\ showTranslation' = FALSE
            /\ IF Len(cardsOf[dict]) > 0
               THEN /\ current' =
                          pickWeighted(cardsOf[dict],
                                       WeightsFor(cardsOf[dict], dict, history,
                                                  clock), k)
                    /\ revealTimer' = TRUE
                    /\ timeouts' = Armed(Cleared(Aged(timeouts), revealTimer))
               ELSE /\ k = 0
                    /\ current' = Null
                    /\ timeouts' = Aged(timeouts)
                    /\ UNCHANGED revealTimer
    /\ UNCHANGED <<cardsOf, history, isLoading, error, stored, clock, storeOk,
                   performed>>
    /\ UNCHANGED frameR

\* applyAnswer(answer); pickNext is the one of the render that handled the
\* click; saveHistory throws when the store does and ends the handler
applyAnswerW(answer, k) ==
    /\ variant = "recall"
    /\ Visible
    /\ LET statKey == getStatKey(dictLang, CardId(current))
           prev == IF statKey \in DOMAIN history.statsById
                   THEN history.statsById[statKey]
                   ELSE [seen |-> 0, known |-> 0, unknown |-> 0]
           newHistory ==
               nextHistory(history, statKey, nextStat(prev, answer, clock), clock)
           next == pickNext(k)
       IN /\ history' = newHistory
          /\ performed' = performed + 1
          /\ IF ~storeOk
             THEN /\ k = 0
                  /\ showTranslation' = TRUE
                  /\ UNCHANGED <<stored, current, revealTimer, timeouts>>
             ELSE /\ stored' = saveHistory(newHistory)
                  /\ Len(currentCards) = 0 => k = 0
                  /\ showTranslation' = FALSE
                  /\ current' = next
                  /\ revealTimer' = (next # Null)
                  /\ timeouts' =
                         LET t == Aged(clearRevealTimer(timeouts, revealTimer))
                         IN IF next # Null THEN startRevealTimer(t, FALSE)
                            ELSE t
    /\ UNCHANGED <<cardsOf, dictLang, isLoading, error, storedDict, clock, storeOk>>
    /\ UNCHANGED frameR

\* two clicks on the answer buttons dispatched in one task, before React has
\* rendered the state set by the first: both calls are the applyAnswer of the
\* render on screen, with its current, history and pickNext, and the state set
\* by the second call replaces the state set by the first
applyAnswerTwice(first, k1, second, k2) ==
    /\ variant = "recall"
    /\ Visible
    /\ LET statKey == getStatKey(dictLang, CardId(current))
           prev == IF statKey \in DOMAIN history.statsById
                   THEN history.statsById[statKey]
                   ELSE [seen |-> 0, known |-> 0, unknown |-> 0]
           nextHistory1 ==
               nextHistory(history, statKey, nextStat(prev, first, clock), clock)
           nextHistory2 ==
               nextHistory(history, statKey, nextStat(prev, second, clock), clock)
           next1 == pickNext(k1)
           next2 == pickNext(k2)
       IN /\ history' = nextHistory2
          /\ performed' = performed + 2
          /\ IF ~storeOk
             THEN /\ k1 = 0
                  /\ k2 = 0
                  /\ showTranslation' = TRUE
                  /\ UNCHANGED <<stored, current, revealTimer, timeouts>>
             ELSE /\ stored' = saveHistory(nextHistory2)
                  /\ Len(currentCards) = 0 => (k1 = 0 /\ k2 = 0)
                  /\ showTranslation' = FALSE
                  /\ current' = next2
                  /\ revealTimer' = (next2 # Null)
                  /\ timeouts' =
                         LET t == Aged(clearRevealTimer(timeouts, revealTimer))
                             t1 == IF next1 # Null THEN startRevealTimer(t, FALSE)
                                   ELSE t
                             t2 == clearRevealTimer(t1, next1 # Null)
                         IN IF next2 # Null THEN startRevealTimer(t2, FALSE)
                            ELSE t2
    /\ UNCHANGED <<cardsOf, dictLang, isLoading, error, storedDict, clock, storeOk>>
    /\ UNCHANGED frameR

\* time passes
Tick ==
    /\ variant = "recall"
    /\ clock < MaxNow
    /\ clock' = clock + 1
    /\ UNCHANGED <<cardsOf, dictLang, history, isLoading, error, stored,
                   storedDict, storeOk, performed, current, showTranslation,
                   revealTimer, timeouts>>
    /\ UNCHANGED frameR

\* the page is closed and opened again: the component mounts with fresh
\* state, the stored dictionary and the stored history
RemountW ==
    /\ variant = "recall"
    /\ ~isLoading
    /\ cardsOf' = [d \in DictionaryLang |-> <<>>]
    /\ dictLang' = getStoredDictionary(storedDict)
    /\ history' = getInitialHistory(stored, clock)
    /\ isLoading' = TRUE
    /\ error' = FALSE
    /\ current' = Null
    /\ showTranslation' = FALSE
    /\ revealTimer' = FALSE
    /\ timeouts' = NoTimers
    /\ UNCHANGED <<stored, storedDict, clock, storeOk, performed>>
    /\ UNCHANGED frameR

\* the weighted trainer unmounts inside the running page: the cleanup of the
\* load effect, clearRevealTimer, runs; the fetch of the load effect, when it
\* is still in flight, goes on
UnmountW ==
    /\ variant = "recall"
    /\ variant' = "unmounted"
    /\ revealTimer' = FALSE
    /\ timeouts' = clearRevealTimer(timeouts, revealTimer)
    /\ UNCHANGED <<rafId, current, showTranslation>>
    /\ UNCHANGED <<varsP, varsA, varsW>>

\* the fetches of the load effect resolve after the unmount: load() runs on,
\* the setters of the unmounted component set nothing, startRevealTimer()
\* arms its timeout
LoadDoneUnmounted ==
    /\ variant = "unmounted"
    /\ isLoading
    /\ isLoading' = FALSE
    /\ revealTimer' = TRUE
    /\ timeouts' = startRevealTimer(timeouts, revealTimer)
    /\ UNCHANGED <<cardsOf, dictLang, history, error, stored, storedDict, clock,
                   storeOk, performed, current, showTranslation>>
    /\ UNCHANGED frameR

\* a fetch of the load effect rejects after the unmount
LoadFailUnmounted ==
    /\ variant = "unmounted"
    /\ isLoading
    /\ isLoading' = FALSE
    /\ UNCHANGED <<cardsOf, dictLang, history, error, stored, storedDict, clock,
                   storeOk, performed, current, showTranslation, revealTimer,
                   timeouts>>
    /\ UNCHANGED frameR

\* const stats = useMemo(...): the totals shown for dictionary d
stats(d, h) ==
    LET relevant == {k \in DOMAIN h.statsById : StartsWith(k, DictText(d) \o <<"-">>)}
        RECURSIVE SumOver(_, _)
        SumOver(ks, field) ==
            IF ks = {} THEN 0
            ELSE LET k == CHOOSE x \in ks : TRUE
                 IN (IF field = "known" THEN h.statsById[k].known
                     ELSE h.statsById[k].unknown) + SumOver(ks \ {k}, field)
    IN [known |-> SumOver(relevant, "known"),
        unknown |-> SumOver(relevant, "unknown")]

----------------------------------------------------------------------------
(* Parsers of the source text.  A text is the sequence of its lines, as       *)
(* split(/\r?\n/g) returns them; a line is a sequence of characters.          *)

Separator == <<"<", ">">>

\* the position of the first '<>' in s, counted from 1; 0 when there is none
IndexOfSep(s) ==
    IF \E i \in 1..(Len(s) - 1) : s[i] = "<" /\ s[i + 1] = ">"
    THEN CHOOSE i \in 1..(Len(s) - 1) :
            /\ s[i] = "<" /\ s[i + 1] = ">"
            /\ \A j \in 1..(i - 1) : ~(s[j] = "<" /\ s[j + 1] = ">")
    ELSE 0

RECURSIVE split(_)
\* line.split('<>')
split(s) ==
    LET i == IndexOfSep(s)
    IN IF i = 0 THEN <<s>>
       ELSE <<SubSeq(s, 1, i - 1)>> \o split(SubSeq(s, i + 2, Len(s)))

RECURSIVE trimStart(_)
trimStart(s) ==
    IF Len(s) > 0 /\ s[1] = " " THEN trimStart(Tail(s)) ELSE s

RECURSIVE trimEnd(_)
trimEnd(s) ==
    IF Len(s) > 0 /\ s[Len(s)] = " " THEN trimEnd(SubSeq(s, 1, Len(s) - 1))
    ELSE s

\* s.trim()
trim(s) == trimEnd(trimStart(s))

RECURSIVE join(_)
\* parts.join('<>')
join(parts) ==
    IF Len(parts) = 0 THEN <<>>
    ELSE IF Len(parts) = 1 THEN parts[1]
    ELSE parts[1] \o Separator \o join(Tail(parts))

RECURSIVE Concat(_)
\* .filter(Boolean) over the optional items of the lines
Concat(opts) == IF Len(opts) = 0 THEN <<>> ELSE opts[1] \o Concat(Tail(opts))

\* l.length > 0 && !l.startsWith('#')
KeptLine(l) == Len(l) > 0 /\ l[1] # "#"

\* l.length > 0
NonEmptyLine(l) == Len(l) > 0

\* the lines of the text, each trimmed
TrimmedLines(lines) == [i \in 1..Len(lines) |-> trim(lines[i])]

\* parseTxt of the weighted trainer, the callback of map for the line at index i
parseLine(line, i) ==
    LET parts == split(line)
        cs == trim(parts[1])
        other == trim(join(Tail(parts)))
    IN IF Len(parts) < 2 THEN <<>>
       ELSE IF cs = <<>> \/ other = <<>> THEN <<>>
       ELSE <<[id |-> <<Digits[i + 1], "-">> \o cs \o <<"-">> \o other,
               cs |-> cs, other |-> other]>>

\* parseTxt of the weighted trainer
parseTxt(lines) ==
    LET kept == SelectSeq(TrimmedLines(lines), KeptLine)
    IN Concat([i \in 1..Len(kept) |-> parseLine(kept[i], i - 1)])

\* parseTxt of the Koch trainers, the callback of map for the line at index i
parseLineKoch(line, i) ==
    LET parts == split(line)
    IN IF Len(parts) < 2 THEN <<>>
       ELSE <<[id |-> <<Digits[i + 1]>>,
               cs |-> trim(parts[1]),
               other |-> trim(join(Tail(parts)))]>>

\* parseTxt of the Koch trainers
parseTxtKoch(lines) ==
    LET kept == SelectSeq(TrimmedLines(lines), KeptLine)
    IN Concat([i \in 1..Len(kept) |-> parseLineKoch(kept[i], i - 1)])

\* loadWords of the manual trainer, the callback of map
parsePair(line) ==
    LET parts == split(line)
    IN IF Len(parts) < 2 THEN <<>>
       ELSE <<[left |-> trim(parts[1]), right |-> trim(parts[2])]>>

\* loadWords of the manual trainer, its parse
parseWords(lines) ==
    LET kept == SelectSeq(TrimmedLines(lines), NonEmptyLine)
    IN Concat([i \in 1..Len(kept) |-> parsePair(kept[i])])

\* the pieces a source line is made of
Tokens == {<<"a">>, <<" ">>, <<"#">>, <<"<">>, Separator}

\* the source lines of at most MaxTokens tokens
Lines ==
    {Concat(ts) : ts \in UNION {[1..n -> Tokens] : n \in 0..MaxTokens}}

\* a call of each parser on the text
CallParseTxt ==
    /\ variant = "parse"
    /\ parsed = None
    /\ parsed' = Some([weighted |-> parseTxt(txt),
                       koch |-> parseTxtKoch(txt),
                       manual |-> parseWords(txt)])
    /\ UNCHANGED <<pWeights, pRnd, pOut, txt, wStat, wNow, wOut, varsR,
                   varsO, variant, varsP, varsA, varsS>>

----------------------------------------------------------------------------
(* Tap game (reaction time) *)

\* the variables the tap game does not have
frameG == <<variant, varsP, varsA, varsS, wStat, wNow, wOut, varsK, varsR, varsM>>

\* the waiting effect that returns no cleanup
WaitingEffectKept(old, new, timers) ==
    IF new = old THEN timers
    ELSE IF new = "waiting" THEN timers + 1 ELSE timers

\* useEffect(..., [state]) after a render that changed state from old to new:
\* the cleanup of the run for old clears its timeout (there is one when old
\* is waiting, pending or not), the run for new arms one when new is waiting;
\* timers is the number of pending timeouts
WaitingEffect(old, new, timers) ==
    IF new = old THEN timers
    ELSE LET cleaned == IF old = "waiting" /\ timers > 0 THEN timers - 1
                        ELSE timers
         IN IF new = "waiting" THEN cleaned + 1 ELSE cleaned

\* handleTap(): three ifs in a row on the state of the render, the setters
\* of a later if replacing those of an earlier one
handleTap ==
    /\ variant = "tap"
    /\ LET afterReady ==
               IF tapState = "ready"
               THEN [state |-> "result", reactionTime |-> Some(tapNow - startTime)]
               ELSE [state |-> tapState, reactionTime |-> reactionTime]
           afterStart ==
               IF tapState = "idle" \/ tapState = "result"
               THEN [state |-> "waiting", reactionTime |-> None]
               ELSE afterReady
           afterEarly ==
               IF tapState = "waiting"
               THEN [state |-> "idle", reactionTime |-> None]
               ELSE afterStart
       IN /\ tapState' = afterEarly.state
          /\ reactionTime' = afterEarly.reactionTime
          /\ delayTimer' = WaitingEffect(tapState, tapState', delayTimer)
    /\ UNCHANGED <<startTime, tapNow>>
    /\ UNCHANGED frameG

\* the timeout of the waiting effect fires: setStartTime(Date.now()),
\* setState('ready')
DelayFire ==
    /\ variant = "tap"
    /\ delayTimer > 0
    /\ startTime' = tapNow
    /\ tapState' = "ready"
    /\ delayTimer' = WaitingEffect(tapState, tapState', delayTimer - 1)
    /\ UNCHANGED <<reactionTime, tapNow>>
    /\ UNCHANGED frameG

\* time passes
TickG ==
    /\ variant = "tap"
    /\ tapNow < MaxTapClock
    /\ tapNow' = tapNow + 1
    /\ UNCHANGED <<tapState, startTime, reactionTime, delayTimer>>
    /\ UNCHANGED frameG

----------------------------------------------------------------------------
(* Manual trainer: the learner extends the active set with More words; a     *)
(* pair is named by its place among the pairs parsed from the file, so two   *)
(* names are one object of the program exactly when they are equal.          *)

PAIRS_SELECTED == 20
FIRST_PAIRS == 4

\* the variables the manual trainer does not have
frameM == <<variant, varsP, varsA, varsS, wStat, wNow, wOut, varsK, varsR, varsG>>

\* Math.random() at the two ends of its range
EdgeDraws == {0, DrawResolution - 1}

\* copy with the elements at the places a and b (counted from 0) exchanged
Swapped(copy, a, b) ==
    [copy EXCEPT ![a + 1] = copy[b + 1], ![b + 1] = copy[a + 1]]

RECURSIVE shuffleFrom(_, _, _)
\* for (i = ...; i > 0; i -= 1) { j = Math.floor(Math.random() * (i + 1));
\* swap copy[i], copy[j] } with Math.random() = k / DrawResolution each time
shuffleFrom(copy, i, k) ==
    IF i <= 0 THEN copy
    ELSE shuffleFrom(Swapped(copy, i, (k * (i + 1)) \div DrawResolution),
                     i - 1, k)

\* shuffle(arr)
shuffle(arr, k) == shuffleFrom(arr, Len(arr) - 1, k)

\* arr.slice(0, n)
SliceFirst(arr, n) == SubSeq(arr, 1, Min(n, Len(arr)))

\* the pairs of all, in the order of all
remainingAll(all, active) == all

\* allPairs.filter(p => !activePairs.includes(p))
remainingPairs(all, active) ==
    SelectSeq(all, LAMBDA p : \A a \in 1..Len(active) : active[a] # p)

\* showLoop() of a render whose activePairs is active, pickRandom() ending
\* on the index i: on an empty list pickRandom returns null and showLoop
\* returns; else the pair is put on screen, the right cell is hidden, the
\* reveal and the blank timeouts are armed and loopTimeout holds a new one
showLoop(active, i) ==
    IF Len(active) = 0
    THEN /\ i = 0
         /\ UNCHANGED <<currentPair, showRight, previousIndex, loopTimeout,
                        stepTimeouts>>
    ELSE /\ i \in 0..(Len(active) - 1)
         /\ (previousIndex # None /\ Len(active) > 1) => Some(i) # previousIndex
         /\ previousIndex' = Some(i)
         /\ currentPair' = active[i + 1]
         /\ showRight' = FALSE
         /\ stepTimeouts' = [reveal |-> stepTimeouts.reveal + 1,
                             blank |-> stepTimeouts.blank + 1]
         /\ loopTimeout' = TRUE

\* the mount effect runs init(): await delay(1000)
MountManual ==
    /\ variant = "manual"
    /\ initStep = "unmounted"
    /\ initStep' = "delay"
    /\ UNCHANGED <<allPairs, activePairs, currentPair, showRight, ready, failed,
                   previousIndex, loopTimeout, stepTimeouts>>
    /\ UNCHANGED frameM

\* the delay of init() is over: loadWords() starts its fetch
InitDelayDone ==
    /\ variant = "manual"
    /\ initStep = "delay"
    /\ initStep' = "fetch"
    /\ UNCHANGED <<allPairs, activePairs, currentPair, showRight, ready, failed,
                   previousIndex, loopTimeout, stepTimeouts>>
    /\ UNCHANGED frameM

\* loadWords(): the text is fetched and parses to n pairs; fewer than 20
\* throw into the catch, else 20 shuffled pairs are kept and loadWords
\* waits another second
loadWordsParsed(n, k) ==
    /\ variant = "manual"
    /\ initStep = "fetch"
    /\ IF n < PAIRS_SELECTED
       THEN /\ k = 0
            /\ failed' = TRUE
            /\ initStep' = "done"
            /\ UNCHANGED allPairs
       ELSE /\ allPairs' = SliceFirst(shuffle([p \in 1..n |-> p], k),
                                      PAIRS_SELECTED)
            /\ initStep' = "settle"
            /\ UNCHANGED failed
    /\ UNCHANGED <<activePairs, currentPair, showRight, ready, previousIndex,
                   loopTimeout, stepTimeouts>>
    /\ UNCHANGED frameM

\* loadWords(): fetch rejects or the response is not ok
loadWordsFailed ==
    /\ variant = "manual"
    /\ initStep = "fetch"
    /\ failed' = TRUE
    /\ initStep' = "done"
    /\ UNCHANGED <<allPairs, activePairs, currentPair, showRight, ready,
                   previousIndex, loopTimeout, stepTimeouts>>
    /\ UNCHANGED frameM

\* the second delay of loadWords() is over: setReady(true)
SettleDone ==
    /\ variant = "manual"
    /\ initStep = "settle"
    /\ ready' = TRUE
    /\ initStep' = "done"
    /\ UNCHANGED <<allPairs, activePairs, currentPair, showRight, failed,
                   previousIndex, loopTimeout, stepTimeouts>>
    /\ UNCHANGED frameM

\* handleMore() with Math.random() = k / DrawResolution in shuffle and in the
\* choice of the next pair, and pickRandom() ending on index i; showLoop is
\* the one of the render that handled the press
handleMore(k, i) ==
    /\ variant = "manual"
    /\ initStep # "unmounted"
    /\ IF ~ready \/ failed
       THEN /\ k = 0
            /\ i = 0
            /\ UNCHANGED <<activePairs, currentPair, showRight, previousIndex,
                           loopTimeout, stepTimeouts>>
       ELSE IF Len(activePairs) = 0
       THEN /\ activePairs' = SliceFirst(shuffle(allPairs, k), FIRST_PAIRS)
            /\ showLoop(activePairs, i)
       ELSE IF Len(activePairs) >= PAIRS_SELECTED
       THEN /\ k = 0
            /\ i = 0
            /\ UNCHANGED <<activePairs, currentPair, showRight, previousIndex,
                           loopTimeout, stepTimeouts>>
       ELSE LET remaining == remainingPairs(allPairs, activePairs)
            IN /\ i = 0
               /\ IF Len(remaining) = 0
                  THEN /\ k = 0
                       /\ UNCHANGED activePairs
                  ELSE activePairs' =
                          Append(activePairs,
                                 remaining[(k * Len(remaining))
                                              \div DrawResolution + 1])
               /\ UNCHANGED <<currentPair, showRight, previousIndex,
                              loopTimeout, stepTimeouts>>
    /\ UNCHANGED <<initStep, allPairs, ready, failed>>
    /\ UNCHANGED frameM

----------------------------------------------------------------------------

\* the tap game before its mount
IdleG ==
    /\ tapState = "idle"
    /\ startTime = 0
    /\ reactionTime = None
    /\ delayTimer = 0
    /\ tapNow = 0

\* the manual trainer before its mount
IdleM ==
    /\ initStep = "unmounted"
    /\ allPairs = <<>>
    /\ activePairs = <<>>
    /\ currentPair = Null
    /\ showRight = FALSE
    /\ ready = FALSE
    /\ failed = FALSE
    /\ previousIndex = None
    /\ loopTimeout = FALSE
    /\ stepTimeouts = [reveal |-> 0, blank |-> 0]

IdleO == IdleG /\ IdleM

IdleK ==
    /\ pWeights = <<>>
    /\ pRnd = 0
    /\ pOut = None
    /\ txt = <<>>
    /\ parsed = None

IdleR ==
    /\ cardsOf = [d \in DictionaryLang |-> <<>>]
    /\ dictLang = "sv"
    /\ history = DefaultHistory(0)
    /\ isLoading = FALSE
    /\ error = FALSE
    /\ stored = RawNull
    /\ storedDict = NoBlob
    /\ clock = 0
    /\ storeOk = TRUE
    /\ performed = 0

InitShared ==
    /\ rafId = FALSE
    /\ current = Null
    /\ showTranslation = FALSE
    /\ revealTimer = FALSE
    /\ timeouts = NoTimers
    /\ wStat = None
    /\ wNow = 0
    /\ wOut = None
    /\ IdleK
    /\ IdleR
    /\ IdleO

IdleP ==
    /\ cardsSv = <<>>
    /\ storage = RawNull
    /\ kochState = loadKochState(storage)
    /\ loading = "fetching"

IdleA ==
    /\ cards = <<>>
    /\ dictionary = "sv"
    /\ kochIndex = KOCH_START
    /\ answers = <<>>
    /\ intervalRef = FALSE
    /\ intervals = NoTimers
    /\ switches = 0

InitP ==
    /\ variant = "persist"
    /\ IdleP
    /\ IdleA
    /\ inFlight = {}
    /\ InitShared

InitA ==
    /\ variant = "auto"
    /\ IdleP
    /\ IdleA
    /\ inFlight = {"sv"}
    /\ InitShared

InitTimed ==
    /\ variant = "timed"
    /\ IdleP
    /\ IdleA
    /\ inFlight = {"sv"}
    /\ InitShared

\* the learner's outcomes: "unknown" only at the start of a window, at most
\* MissSpan times in a row, and only in the first deck of a session
OutcomeAllowed(window, known) ==
    known \/ (Len(window) < MissSpan /\ CountTrue(window) = 0 /\ switches = 0)

AnswerP(known) == \E i \in 0..MaxDeckP : applyAnswerP(known, i)
AnswerA(correct) == \E i \in 0..MaxDeckA : applyAnswerA(correct, i)

\* the sizes of the decks the sources parse to
DeckSizes(start, max) == {0} \cup ((start - 1)..max)

NextP ==
    \/ \E n \in DeckSizes(KOCH_START_SIZE, MaxDeckP) : LoadDoneP(n)
    \/ LoadFailP
    \/ \E i \in 0..MaxDeckP : RafFireP(i)
    \/ \E known \in BOOLEAN :
          /\ OutcomeAllowed(kochState.recentAnswersByDict[dictionaryLang], known)
          /\ AnswerP(known)
    \/ RemountP

NextA ==
    \/ \E d \in DictionaryLang, n \in DeckSizes(KOCH_START, MaxDeckA) : LoadDoneA(d, n)
    \/ \E d \in DictionaryLang : LoadFailA(d)
    \/ \E i \in 0..MaxDeckA : RafFireA(i)
    \/ \E i \in 0..MaxDeckA : IntervalFire(i)
    \/ \E correct \in BOOLEAN :
          /\ OutcomeAllowed(answers, correct)
          /\ AnswerA(correct)
    \/ \E next \in DictionaryLang :
          /\ switches < MaxSwitch
          /\ switchDictionary(next)
    \/ setIntervalSec

InitW ==
    /\ variant = "weight"
    /\ IdleP
    /\ IdleA
    /\ inFlight = {}
    /\ rafId = FALSE
    /\ current = Null
    /\ showTranslation = FALSE
    /\ revealTimer = FALSE
    /\ timeouts = NoTimers
    /\ wStat \in {None}
                \cup {Some(st) : st \in {x \in Stats : x.seen = x.known + x.unknown}}
    /\ wNow \in 1..MaxClock
    /\ wOut = None
    /\ IdleK
    /\ IdleR
    /\ IdleO

InitK ==
    /\ variant = "pick"
    /\ IdleP
    /\ IdleA
    /\ inFlight = {}
    /\ rafId = FALSE
    /\ current = Null
    /\ showTranslation = FALSE
    /\ revealTimer = FALSE
    /\ timeouts = NoTimers
    /\ wStat = None
    /\ wNow = 0
    /\ wOut = None
    /\ pWeights \in UNION {[1..n -> WeightSamples] : n \in 1..MaxItems}
    /\ pRnd \in 0..(DrawResolution - 1)
    /\ pOut = None
    /\ txt = <<>>
    /\ parsed = None
    /\ IdleR
    /\ IdleO

\* a source text of one line
InitX ==
    /\ variant = "parse"
    /\ IdleP
    /\ IdleA
    /\ inFlight = {}
    /\ rafId = FALSE
    /\ current = Null
    /\ showTranslation = FALSE
    /\ revealTimer = FALSE
    /\ timeouts = NoTimers
    /\ wStat = None
    /\ wNow = 0
    /\ wOut = None
    /\ pWeights = <<>>
    /\ pRnd = 0
    /\ pOut = None
    /\ txt \in {<<l>> : l \in Lines}
    /\ parsed = None
    /\ IdleR
    /\ IdleO

\* the weighted trainer mounts on an empty store
MountW ==
    /\ variant = "recall"
    /\ IdleP
    /\ IdleA
    /\ inFlight = {}
    /\ rafId = FALSE
    /\ current = Null
    /\ showTranslation = FALSE
    /\ revealTimer = FALSE
    /\ timeouts = NoTimers
    /\ wStat = None
    /\ wNow = 0
    /\ wOut = None
    /\ IdleK
    /\ cardsOf = [d \in DictionaryLang |-> <<>>]
    /\ storedDict = NoBlob
    /\ dictLang = getStoredDictionary(storedDict)
    /\ stored = RawNull
    /\ clock = 1
    /\ history = getInitialHistory(stored, clock)
    /\ isLoading = TRUE
    /\ error = FALSE
    /\ performed = 0
    /\ IdleO

\* the states a stored KochState blob may encode
StoredKochStates ==
    {[kochIndexByDict |-> [DefaultKochState.kochIndexByDict EXCEPT !["sv"] = i],
      recentAnswersByDict |->
          [DefaultKochState.recentAnswersByDict EXCEPT !["sv"] = w]] :
        i \in KOCH_START_SIZE..MaxDeckP,
        w \in {<<>>, <<TRUE>>, <<FALSE>>}}

\* the histories a stored HistoryState blob may encode
StoredHistories ==
    {DefaultHistory(1)}
       \cup {nextHistory(DefaultHistory(1),
                         getStatKey("sv", CardId(<<"sv", 1>>)),
                         nextStat([seen |-> 0, known |-> 0, unknown |-> 0],
                                  answer, 1), 1) :
                 answer \in {"known", "unknown"}}

\* both trainers before their mount, each on a store that holds nothing, an
\* empty text, a text that is not JSON, or a blob written earlier
InitL ==
    /\ variant = "load"
    /\ cardsSv = <<>>
    /\ kochState = DefaultKochState
    /\ \/ storage = RawNull
       \/ storage \in {RawEmpty, RawMalformed}
                        \cup {saveKochState(st) : st \in StoredKochStates}
    /\ loading = "unmounted"
    /\ IdleA
    /\ inFlight = {}
    /\ rafId = FALSE
    /\ current = Null
    /\ showTranslation = FALSE
    /\ revealTimer = FALSE
    /\ timeouts = NoTimers
    /\ wStat = None
    /\ wNow = 0
    /\ wOut = None
    /\ IdleK
    /\ cardsOf = [d \in DictionaryLang |-> <<>>]
    /\ dictLang = "sv"
    /\ history = DefaultHistory(0)
    /\ isLoading = FALSE
    /\ error = FALSE
    /\ stored \in {RawNull, RawEmpty, RawMalformed}
                    \cup {saveHistory(h) : h \in StoredHistories}
    /\ storedDict = NoBlob
    /\ clock = 1
    /\ storeOk = TRUE
    /\ performed = 0
    /\ IdleO

\* the persisted Koch trainer mounts: useState(() => loadKochState()); when
\* the initialiser throws the component never renders
MountKoch ==
    /\ variant = "load"
    /\ loading = "unmounted"
    /\ kochState' = loadKochState(storage)
    /\ loading' = IF kochState' = Thrown THEN "crashed" ELSE "fetching"
    /\ UNCHANGED <<cardsSv, storage, variant, varsA, varsS, varsW>>

\* the weighted trainer mounts: useState(() => getInitialHistory())
MountRecall ==
    /\ variant = "load"
    /\ ~isLoading
    /\ history' = getInitialHistory(stored, clock)
    /\ dictLang' = getStoredDictionary(storedDict)
    /\ isLoading' = TRUE
    /\ UNCHANGED <<cardsOf, error, stored, storedDict, clock, storeOk,
                   performed>>
    /\ UNCHANGED <<varsS, varsP, varsA, variant, wStat, wNow, wOut, varsK,
                   varsO>>

NextL == MountKoch \/ MountRecall

InitR == MountW /\ storeOk = TRUE
InitRFault == MountW /\ storeOk = FALSE

\* the numbers of cards the three sources parse to: the first Swedish source
\* holds MaxDeckW cards, the second a single one, the English one at most one
DeckSizesW ==
    {[d \in DictionaryLang |->
         IF d = "sv" THEN MaxDeckW ELSE IF d = "sv2" THEN 1 ELSE n] :
        n \in {0, 1}}

Draws == 0..(DrawResolution - 1)

NextR ==
    \/ \E sizes \in DeckSizesW, k \in Draws : LoadDoneW(sizes, k)
    \/ LoadFailW
    \/ \E dict \in DictionaryLang, k \in Draws : handleDictionarySelect(dict, k)
    \/ \E answer \in {"known", "unknown"}, k \in Draws :
          /\ history.totalAnswers < MaxAnswers
          /\ performed < MaxAnswers
          /\ applyAnswerW(answer, k)
    \/ Tick
    \/ RevealFire
    \/ RemountW

\* the scenario runs: the persisted variant on a deck of ScenarioDeck cards,
\* a first window of KOCH_WINDOW outcomes in any order with at most
\* MaxUnknown "unknown" among them
NextScenario ==
    \/ LoadDoneP(ScenarioDeck)
    \/ \E i \in 1..ScenarioDeck : RafFireP(i)
    \/ \E known \in BOOLEAN, i \in 0..ScenarioDeck :
          LET window == kochState.recentAnswersByDict[dictionaryLang]
          IN /\ Len(window) < KOCH_WINDOW
             /\ known \/ Len(window) - CountTrue(window) < MaxUnknown
             /\ applyAnswerP(known, i)
    \/ RevealFire

Init == InitP \/ InitA
Next == NextP \/ NextA \/ RevealFire
Spec == Init /\ [][Next]_vars

SpecScenario == InitP /\ [][NextScenario]_vars
SpecWeight == InitW /\ [][CallGetWeight]_vars
SpecPick == InitK /\ [][CallPickWeighted]_vars
SpecRecall == InitR /\ [][NextR]_vars
SpecRecallFault == InitRFault /\ [][NextR]_vars
SpecLoad == InitL /\ [][NextL]_vars
SpecParse == InitX /\ [][CallParseTxt]_vars

\* the weighted trainer on a host that may dispatch two clicks in one task
NextB ==
    \/ NextR
    \/ \E first, second \in {"known", "unknown"}, k1, k2 \in Draws :
          /\ history.totalAnswers < MaxAnswers
          /\ applyAnswerTwice(first, k1, second, k2)
SpecBatch == InitR /\ [][NextB]_vars

\* the timed variant with every fetch resolving
NextTimed ==
    \/ \E d \in DictionaryLang, n \in 0..MaxDeckT, i \in 0..MaxDeckT :
          LoadDoneT(d, n, i)
    \/ \E i \in 1..MaxDeckT : IntervalFireT(i)
    \/ /\ switches < MaxSwitchT
       /\ setDictionary
    \/ \E i \in 0..MaxDeckT : setIntervalSecT(i)
    \/ RevealFire
\* the auto-advance variant with every fetch resolving, the learner pressing
\* the dictionary buttons and moving the slider but giving no answer
NextSwitchA ==
    \/ \E d \in DictionaryLang, n \in DeckSizes(KOCH_START, MaxDeckA) :
          LoadDoneA(d, n)
    \/ \E i \in 0..MaxDeckA : RafFireA(i)
    \/ \E i \in 0..MaxDeckA : IntervalFire(i)
    \/ \E next \in DictionaryLang :
          /\ switches < MaxSwitchT
          /\ switchDictionary(next)
    \/ setIntervalSec
InitS == InitTimed \/ InitA
NextS == NextTimed \/ NextSwitchA
SpecSwitch == InitS /\ [][NextS]_vars

\* the weighted trainer inside a page that may unmount it
NextU ==
    \/ NextR
    \/ UnmountW
    \/ LoadDoneUnmounted
    \/ LoadFailUnmounted
SpecUnmount == InitR /\ [][NextU]_vars

InitG ==
    /\ variant = "tap"
    /\ IdleP
    /\ IdleA
    /\ inFlight = {}
    /\ InitShared
NextG == handleTap \/ DelayFire \/ TickG
SpecTap == InitG /\ [][NextG]_vars

InitM ==
    /\ variant = "manual"
    /\ IdleP
    /\ IdleA
    /\ inFlight = {}
    /\ InitShared
\* the file parses to one pair less than needed, or to just enough
NextM ==
    \/ MountManual
    \/ InitDelayDone
    \/ \E n \in {PAIRS_SELECTED - 1, PAIRS_SELECTED}, k \in EdgeDraws :
          loadWordsParsed(n, k)
    \/ loadWordsFailed
    \/ SettleDone
    \/ \E k \in EdgeDraws, i \in 0..(FIRST_PAIRS - 1) : handleMore(k, i)
SpecManual == InitM /\ [][NextM]_vars

\* the same trainer with at most MaxMore presses after the first one; the
\* steps of init() are timers and a fetch, which the browser runs to their
\* end, while nothing makes the learner press
NextLoop ==
    \/ MountManual
    \/ InitDelayDone
    \/ \E n \in {PAIRS_SELECTED - 1, PAIRS_SELECTED}, k \in EdgeDraws :
          loadWordsParsed(n, k)
    \/ loadWordsFailed
    \/ SettleDone
    \/ /\ Len(activePairs) < FIRST_PAIRS + MaxMore
       /\ \E k \in EdgeDraws, i \in 0..(FIRST_PAIRS - 1) : handleMore(k, i)
SpecLoop ==
    /\ InitM
    /\ [][NextLoop]_vars
    /\ WF_vars(MountManual)
    /\ WF_vars(InitDelayDone)
    /\ WF_vars(loadWordsFailed
               \/ \E n \in {PAIRS_SELECTED - 1, PAIRS_SELECTED}, k \in EdgeDraws :
                     loadWordsParsed(n, k))
    /\ WF_vars(SettleDone)

\* the three trainers that arm reveal timers, side by side
InitT == InitP \/ InitA \/ InitR
NextT == NextP \/ NextA \/ NextR
SpecTrainers == InitT /\ [][NextT]_vars

\* the trainers with a one-shot reveal and no auto-advance; the browser runs
\* a pending timeout callback and a pending animation frame
TimerSteps == RevealFire \/ \E i \in 0..MaxDeckP : RafFireP(i)
\* what the mounted component holds: the state less the stored Koch blob
varsMounted == <<variant, cardsSv, kochState, loading, varsA, varsS, varsW>>
InitV == InitP \/ InitR
NextV == NextP \/ NextR
SpecReveal ==
    /\ InitV
    /\ [][NextV]_vars
    /\ WF_vars(RevealFire)
    /\ WF_vars(\E i \in 0..MaxDeckP : RafFireP(i))

----------------------------------------------------------------------------
(* What the host reads off the mounted Progressive Unlock scheduler *)

UnlockedCount ==
    IF variant = "persist" THEN kochIndexP(kochState) ELSE kochIndex
Window ==
    IF variant = "persist" THEN kochState.recentAnswersByDict[dictionaryLang]
    ELSE answers
ActiveDeck == IF variant = "persist" THEN cardsSv ELSE cards
SelectedDict == IF variant = "persist" THEN dictionaryLang ELSE dictionary
StartSize == IF variant = "persist" THEN KOCH_START_SIZE ELSE KOCH_START

\* the deck of the selected dictionary has been loaded and holds cards
DeckLoaded ==
    /\ variant \in {"persist", "auto"}
    /\ Len(ActiveDeck) > 0
    /\ ActiveDeck[1][1] = SelectedDict

\* an answer step with the given outcome, in either variant
Answer(o) == AnswerP(o) \/ AnswerA(o)

\* a step that selects the card to present
Selects ==
    \/ \E i \in 1..MaxDeckP : RafFireP(i)
    \/ \E i \in 0..MaxDeckA : RafFireA(i)
    \/ \E i \in 0..MaxDeckA : IntervalFire(i)
    \/ \E o \in BOOLEAN : Answer(o)

\* card is one of the first k cards of deck
InPrefix(card, deck, k) ==
    \E j \in 1..Len(deck) : j <= k /\ deck[j] = card

\* the window w holds at least KOCH_WINDOW outcomes and at least 85% of the
\* last KOCH_WINDOW are true
MeetsThreshold(w) ==
    /\ Len(w) >= KOCH_WINDOW
    /\ LET last == {i \in 1..Len(w) : i > Len(w) - KOCH_WINDOW}
       IN Cardinality({i \in last : w[i]}) * 100
             >= KOCH_THRESHOLD_PCT * KOCH_WINDOW

----------------------------------------------------------------------------
(* Claims *)

\* C1: once the deck of the selected dictionary is loaded, unlockedCount is at
\* most the number of cards of the deck (start size clamped to the deck size).
C1_UnlockedWithinDeck ==
    DeckLoaded => UnlockedCount <= Len(ActiveDeck)

\* C2: every card made current by a selection (animation frame after a load or
\* an advance, answer, auto-advance interval) is one of the first unlockedCount
\* cards of the deck in use, for the count in force when it was picked.
C2_SelectionInPrefix ==
    [][\/ current' = Null
       \/ InPrefix(current', ActiveDeck, UnlockedCount)
       \/ ~Selects]_vars

\* C2 witness: the card unlocked last by an advance beyond the start size is
\* on screen.
C2_Witness ==
    /\ variant = "auto"
    /\ kochIndex = KOCH_START + 1
    /\ Len(cards) >= kochIndex
    /\ current = cards[kochIndex]

\* C3: an answer raises unlockedCount by exactly 1 when the window with the
\* outcome appended holds at least 20 outcomes, at least 85% of the last 20 are
\* true and unlockedCount is below the deck size; otherwise it is unchanged.
C3_AdvanceRule ==
    [][\A o \in BOOLEAN :
          \/ UnlockedCount' =
                IF /\ MeetsThreshold(Append(Window, o))
                   /\ UnlockedCount < Len(ActiveDeck)
                THEN UnlockedCount + 1 ELSE UnlockedCount
          \/ ~Answer(o)]_vars

\* C3 witness: the persisted scheduler has advanced on a full window with
\* exactly 17 true outcomes.
C3_Witness ==
    /\ variant = "persist"
    /\ UnlockedCount = KOCH_START_SIZE + 1
    /\ Len(Window) = KOCH_WINDOW
    /\ CountTrue(Window) = 17

\* C4: unlockedCount advances once per threshold crossing: an answer given
\* while the window already met the threshold before it does not advance.
C4_OncePerCrossing ==
    [][\A o \in BOOLEAN :
          (Answer(o) /\ MeetsThreshold(Window)) =>
             UnlockedCount' = UnlockedCount]_vars

\* C5: an answer that advances unlockedCount leaves the window holding the
\* last KOCH_WINDOW outcomes, the recorded one included.
C5_WindowKeptOnAdvance ==
    [][\A o \in BOOLEAN :
          (Answer(o) /\ UnlockedCount' > UnlockedCount) =>
             Window' = SliceLast(Append(Window, o), KOCH_WINDOW)]_vars

\* C6: start size 2, window 20, threshold 0.85, deck larger than
\* unlockedCount: the 20th outcome of a first window advances unlockedCount
\* by 1 when 17 of the 20 are true, in any order, and does not advance it
\* when 16 are.
C6_Scenario ==
    [][\A o \in BOOLEAN :
          (/\ Answer(o)
           /\ Len(Window) = KOCH_WINDOW - 1
           /\ UnlockedCount < Len(ActiveDeck)) =>
             /\ CountTrue(Append(Window, o)) = 17 =>
                   UnlockedCount' = UnlockedCount + 1
             /\ CountTrue(Append(Window, o)) = 16 =>
                   UnlockedCount' = UnlockedCount]_vars

\* C6 witness: 17 true and 3 false with the misses first, in the middle and
\* last, and the count advanced from 2 to 3.
C6_Witness ==
    /\ UnlockedCount = KOCH_START_SIZE + 1
    /\ Len(Window) = KOCH_WINDOW
    /\ {i \in 1..KOCH_WINDOW : ~Window[i]} = {1, 10, KOCH_WINDOW}

\* C7: unlockedCount never decreases while the dictionary stays selected, and
\* a dictionary switch sets it to the start size.
C7_Monotone ==
    [][/\ SelectedDict' = SelectedDict => UnlockedCount' >= UnlockedCount
       /\ SelectedDict' # SelectedDict => UnlockedCount' = StartSize]_vars

\* C7 witness: a switch has taken an advanced count back to the start size
\* (the selection effect ran again on the shortened prefix of the old deck).
C7_Witness ==
    /\ variant = "auto"
    /\ switches = 1
    /\ kochIndex = KOCH_START
    /\ current = Null
    /\ intervalRef
    /\ Len(cards) > KOCH_START
    /\ cards[1][1] # dictionary

\* C8: after a switch the new deck starts from the start size and an empty
\* window, and every outcome that enters the window was given on a card of the
\* selected dictionary's deck.
C8_NoForeignOutcome ==
    [][/\ SelectedDict' # SelectedDict =>
             (UnlockedCount' = StartSize /\ Window' = <<>>)
       /\ \A o \in BOOLEAN : Answer(o) => current[1] = SelectedDict]_vars

\* C9: the window holds at most KOCH_WINDOW outcomes, and after every answer
\* it is the previous window with the outcome appended and the oldest
\* outcomes beyond KOCH_WINDOW evicted.
C9_WindowSlides ==
    [][/\ Len(Window') <= KOCH_WINDOW
       /\ \A o \in BOOLEAN :
             Answer(o) =>
                Window' = SliceLast(Append(Window, o), KOCH_WINDOW)]_vars

\* C10: for every stat (any counts, last answer absent, past or in the
\* future) the weight lies in [0.2, 20].
C10_WeightInRange ==
    wOut # None =>
       /\ wOut[1] * 5 >= WeightUnit
       /\ wOut[1] <= 20 * WeightUnit

\* C10 witness: a weight was computed for a stat whose last answer lies in
\* the future and whose known count pulls the sum below the lower bound.
C10_Witness ==
    /\ wOut # None
    /\ wStat # None
    /\ wStat[1].lastAnswerAt # None
    /\ wStat[1].lastAnswerAt[1] > wNow
    /\ wStat[1].known > wStat[1].unknown * 2 + 1
    /\ wOut[1] * 5 = WeightUnit

\* C11: an item without a stat weighs 3; with a stat it weighs
\* 1 + 3*unknown - 1.5*known + timeBoost bounded to [0.2, 20], where timeBoost
\* is (hours since the last answer)/24 bounded to [0, 2] and 0 when the item
\* was never answered; with unknown = 2 and known = 0 that is at least 7,
\* more than the 3 of an item without a stat.
C11_WeightFormula ==
    wOut # None =>
       IF wStat = None THEN wOut[1] * 10 = 30 * WeightUnit
       ELSE LET st == wStat[1]
                halfDays ==
                    IF st.lastAnswerAt = None THEN 0
                    ELSE wNow - st.lastAnswerAt[1]
                \* in twentieths of a weight unit: half a day of waiting adds 0.5
                boost20 ==
                    IF halfDays < 0 THEN 0
                    ELSE IF halfDays > 4 THEN 40 ELSE 10 * halfDays
                sum20 == 20 + 60 * st.unknown - 30 * st.known + boost20
                bounded20 ==
                    IF sum20 < 4 THEN 4 ELSE IF sum20 > 400 THEN 400 ELSE sum20
            IN /\ wOut[1] * 20 = bounded20 * WeightUnit
               /\ (st.unknown = 2 /\ st.known = 0) =>
                     (wOut[1] >= 7 * WeightUnit /\ wOut[1] > 3 * WeightUnit)

\* C11 witness: the weight of a never-answered stat with unknown = 2 and
\* known = 0 was computed and is 7.
C11_Witness ==
    /\ wOut = Some(7 * WeightUnit)
    /\ wStat # None
    /\ wStat[1].unknown = 2
    /\ wStat[1].known = 0
    /\ wStat[1].lastAnswerAt = None

\* the cumulative weight c(i) = w(1) + ... + w(i) of the call
PickCumulative(i) == SumSeq(SubSeq(pWeights, 1, i))

\* C13 as stated: for a non-empty list, weights in [0.2, 20] and a draw r in
\* [0, total), pickWeighted returns the item whose interval [c(i-1), c(i))
\* contains r, the first index i with r < c(i).
C13_HalfOpenInterval ==
    pOut # None =>
       \E i \in 1..Len(pWeights) :
          /\ pOut[1] = PickItems(Len(pWeights))[i]
          /\ pRnd * SumSeq(pWeights) < DrawResolution * PickCumulative(i)
          /\ pRnd * SumSeq(pWeights) >= DrawResolution * PickCumulative(i - 1)

\* C13 amended: pickWeighted returns an element of the list, the first index
\* i with r <= c(i): the item whose interval (c(i-1), c(i)] contains r, and
\* the first item for r = 0.
C13_FirstNotAbove ==
    pOut # None =>
       \E i \in 1..Len(pWeights) :
          /\ pOut[1] = PickItems(Len(pWeights))[i]
          /\ pRnd * SumSeq(pWeights) <= DrawResolution * PickCumulative(i)
          /\ \/ pRnd * SumSeq(pWeights)
                   > DrawResolution * PickCumulative(i - 1)
             \/ (i = 1 /\ pRnd = 0)

\* C13 witness: a draw exactly on the boundary between the first two items
\* returned the first one.
C13_Witness ==
    /\ pOut # None
    /\ Len(pWeights) >= 2
    /\ pRnd * SumSeq(pWeights) = DrawResolution * PickCumulative(1)
    /\ pOut[1] = PickItems(Len(pWeights))[1]

----------------------------------------------------------------------------
(* Claims on the weighted trainer *)

\* an answer step of the weighted trainer with the given outcome
AnswerW(answer) == \E k \in Draws : applyAnswerW(answer, k)

\* the stat the history h holds under key, all zero when it holds none
StatOrZero(h, key) ==
    IF key \in DOMAIN h.statsById THEN h.statsById[key]
    ELSE [seen |-> 0, known |-> 0, unknown |-> 0, lastAnswerAt |-> None]

\* the key of the card on screen
CurrentKey == getStatKey(dictLang, CardId(current))

\* draws r in [0, total) for the weights ws, in weight units: the values just
\* below a cumulative weight
DrawPoints(ws) ==
    {r \in {SumSeq(SubSeq(ws, 1, j)) - 1 : j \in 1..Len(ws)} :
        r >= 0 /\ r < SumSeq(ws)}

\* C12: in every reachable history state, for every item of a non-empty deck
\* (the active one, or one a switch selects from) there is a draw in
\* [0, total) for which the weighted selection returns the item, however often
\* it was answered as known.
C12_NoStarvation ==
    variant = "recall" =>
       \A d \in DictionaryLang :
          LET ws == WeightsFor(cardsOf[d], d, history, clock)
          IN \A j \in 1..Len(cardsOf[d]) :
                \E r \in DrawPoints(ws) :
                   pickLoop(cardsOf[d], ws, r * DrawResolution, 1)
                      = cardsOf[d][j]

\* C12 witness: an item answered as known twice, whose weight is down at 0.2,
\* has been selected again.
C12_Witness ==
    /\ variant = "recall"
    /\ Visible
    /\ ~showTranslation
    /\ StatOrZero(history, CurrentKey).known = 2
    /\ getWeight(StatOf(history, CurrentKey), clock) * 5 = WeightUnit

\* C14: an answer with outcome o on the current item adds 1 to the item's seen
\* and to exactly one of known (o = known) or unknown (o = unknown), sets its
\* last-answer time to now, adds 1 to totalAnswers and leaves the stat of
\* every other item as it was; an item without a stat starts from zero.
C14_RecordAnswer ==
    [][\A o \in {"known", "unknown"} :
          AnswerW(o) =>
             LET old == StatOrZero(history, CurrentKey)
                 new == StatOrZero(history', CurrentKey)
             IN /\ CurrentKey \in DOMAIN history'.statsById
                /\ new.seen = old.seen + 1
                /\ new.known = old.known + (IF o = "known" THEN 1 ELSE 0)
                /\ new.unknown = old.unknown + (IF o = "unknown" THEN 1 ELSE 0)
                /\ new.lastAnswerAt = Some(clock)
                /\ history'.totalAnswers = history.totalAnswers + 1
                /\ DOMAIN history'.statsById
                      = DOMAIN history.statsById \cup {CurrentKey}
                /\ \A key \in DOMAIN history.statsById \ {CurrentKey} :
                      history'.statsById[key] = history.statsById[key]]_vars

\* C14 witness: two different items were answered, one as known and one as
\* unknown.
C14_Witness ==
    /\ variant = "recall"
    /\ history.totalAnswers = 2
    /\ \E k1, k2 \in DOMAIN history.statsById :
          /\ k1 # k2
          /\ history.statsById[k1].known = 1
          /\ history.statsById[k2].unknown = 1

\* C15: starting from an empty history, every stored stat has
\* seen = known + unknown, in memory and in the stored blob.
C15_SeenIsSum ==
    variant = "recall" =>
       /\ \A key \in DOMAIN history.statsById :
             history.statsById[key].seen
                = history.statsById[key].known + history.statsById[key].unknown
       /\ stored # RawNull =>
             \A key \in DOMAIN stored[2].statsById :
                stored[2].statsById[key].seen
                   = stored[2].statsById[key].known
                        + stored[2].statsById[key].unknown

\* C15 witness: an item was answered once as known and once as unknown.
C15_Witness ==
    /\ variant = "recall"
    /\ \E key \in DOMAIN history.statsById :
          /\ history.statsById[key].seen = 2
          /\ history.statsById[key].known = 1
          /\ history.statsById[key].unknown = 1

\* C16: when an answer step has selected the next item (the handler went on
\* to hide the translation for it), the stored blob
\* already holds the history with that answer: loading it back gives the
\* incremented totalAnswers and the answered item's new stat.
C16_SavedBeforeNext ==
    [][\A o \in {"known", "unknown"} :
          (AnswerW(o) /\ ~showTranslation') =>
             LET back == getInitialHistory(stored', clock)
             IN /\ back.totalAnswers = history.totalAnswers + 1
                /\ CurrentKey \in DOMAIN back.statsById
                /\ back.statsById[CurrentKey].seen
                      = StatOrZero(history, CurrentKey).seen + 1
                /\ back.statsById[CurrentKey].lastAnswerAt = Some(clock)]_vars

\* C16 witness: after the second answer the next item is on screen and the
\* stored blob holds both answers.
C16_Witness ==
    /\ variant = "recall"
    /\ Visible
    /\ ~showTranslation
    /\ history.totalAnswers = 2
    /\ stored = StringifyHistory(history)

\* the item the weighted draw over the whole deck of dictionary d returns for
\* the stats of history h and the draw k
DrawnFrom(d, h, k) ==
    pickWeighted(cardsOf'[d], WeightsFor(cardsOf'[d], d, h, clock), k)

\* C17: every selection (the first after load, after an answer, after a
\* dictionary switch) is the weighted draw over all items of the active deck
\* with each item weighted by the stat the history holds for it (the history
\* before or after the answer of the same step), 3 only for items without a
\* stat.
C17_SelectionUsesHistory ==
    [][/\ \A sizes \in DeckSizesW, k \in Draws :
             LoadDoneW(sizes, k) => current' = DrawnFrom(dictLang', history, k)
       /\ \A dict \in DictionaryLang, k \in Draws :
             (handleDictionarySelect(dict, k) /\ Len(cardsOf[dict]) > 0) =>
                current' = DrawnFrom(dict, history, k)
       /\ \A o \in {"known", "unknown"}, k \in Draws :
             (applyAnswerW(o, k) /\ Len(currentCards) > 0) =>
                \/ current' = DrawnFrom(dictLang, history, k)
                \/ current' = DrawnFrom(dictLang, history', k)]_vars

\* the keys of the cards of dictionary d
KeysOf(d) == {getStatKey(d, CardId(cardsOf[d][i])) : i \in 1..Len(cardsOf[d])}

\* C18: the totals shown for a dictionary change only by an answer given in
\* that dictionary, by 1 in the count of the outcome (from 0 on an empty
\* history), so they are the sums over the stats recorded for its items; keys of different dictionaries
\* differ and never carry another dictionary's prefix, and an answer leaves
\* the totals and the weights of every other dictionary as they were.
C18_TotalsPerDictionary ==
    [][variant = "recall" =>
          /\ cardsOf' # cardsOf =>
                \A d1, d2 \in DictionaryLang :
                   d1 # d2 =>
                      /\ KeysOf(d1)' \cap KeysOf(d2)' = {}
                      /\ \A key \in KeysOf(d1)' :
                            ~StartsWith(key, DictText(d2) \o <<"-">>)
          /\ history' # history =>
                LET o == IF AnswerW("known") THEN "known"
                         ELSE IF AnswerW("unknown") THEN "unknown"
                         ELSE "none"
                IN \A d \in DictionaryLang :
                      IF o # "none" /\ d = dictLang
                      THEN /\ stats(d, history').known
                                 = stats(d, history).known
                                      + (IF o = "known" THEN 1 ELSE 0)
                           /\ stats(d, history').unknown
                                 = stats(d, history).unknown
                                      + (IF o = "unknown" THEN 1 ELSE 0)
                      ELSE /\ stats(d, history') = stats(d, history)
                           /\ WeightsFor(cardsOf[d], d, history', clock)
                                 = WeightsFor(cardsOf[d], d, history, clock)]_vars

\* C18 witness: answers were recorded in two dictionaries and the totals of
\* the selected one count only its own.
C18_Witness ==
    /\ variant = "recall"
    /\ dictLang = "sv2"
    /\ history.totalAnswers = 2
    /\ stats("sv2", history) = [known |-> 0, unknown |-> 1]
    /\ stats("sv", history) = [known |-> 1, unknown |-> 0]

\* C19: when the stored blob is absent or cannot be parsed, the mount yields
\* the default empty state and raises no error: no stats and totalAnswers = 0
\* in the weighted trainer; the start size and an empty window for every deck
\* in the progressive trainer.
C19_DefaultOnBadBlob ==
    variant = "load" =>
       /\ (isLoading /\ stored \in {RawNull, RawEmpty, RawMalformed}) =>
             /\ history.statsById = <<>>
             /\ history.totalAnswers = 0
       /\ (loading # "unmounted"
             /\ (storage = RawNull \/ storage \in {RawEmpty, RawMalformed})) =>
             /\ kochState # Thrown
             /\ loading = "fetching"
             /\ \A d \in DictionaryLang :
                   /\ kochState.kochIndexByDict[d] = KOCH_START_SIZE
                   /\ kochState.recentAnswersByDict[d] = <<>>

\* C20: when the write of the blob throws, the answer transition still
\* completes: the history in memory holds the recorded answer, and the next
\* item is selected and presented, its translation hidden and its reveal timer
\* armed.
C20_WriteFailureTolerated ==
    [][\A o \in {"known", "unknown"} :
          (AnswerW(o) /\ ~storeOk) =>
             /\ history'.totalAnswers = history.totalAnswers + 1
             /\ StatOrZero(history', CurrentKey).seen
                   = StatOrZero(history, CurrentKey).seen + 1
             /\ Len(currentCards) > 0 =>
                   /\ \E i \in 1..Len(currentCards) : current' = currentCards[i]
                   /\ ~showTranslation'
                   /\ revealTimer']_vars

----------------------------------------------------------------------------
(* Claims on the timers *)

\* C21: at every instant at most one reveal timer is pending: every handler
\* that arms a reveal timer (answer, auto-advance, dictionary switch, initial
\* load) cancels the one armed before.
C21_OneRevealTimer == Pending(timeouts) <= 1

\* a timer is pending for a card presented by an answer: the handler re-armed
C21_Witness ==
    /\ Pending(timeouts) = 1
    /\ current # Null
    /\ \/ variant = "recall" /\ history.totalAnswers > 0
       \/ variant = "auto" /\ Len(answers) > 0
       \/ variant = "persist"
             /\ Len(kochState.recentAnswersByDict[dictionaryLang]) > 0

\* C22: a reveal timer that fires belongs to the presentation on screen: once
\* an item has been presented (by an answer or any other selection), no reveal
\* timer armed before that presentation is still pending, so no such timer
\* can make the item's translation visible.
C22_NoStaleReveal == current # Null => timeouts.prev = 0

\* C23: after every selection of an item, whatever item is drawn, when the
\* learner gives no further input (from some point on only timer and frame
\* callbacks run), the reveal fires and the translation of the item on screen
\* becomes visible.
C23_RevealEventually ==
    <>[][TimerSteps]_varsMounted => <>[](current # Null => showTranslation)

\* C24: in the auto-advance trainer every selection of an item, by an answer
\* or by the periodic auto-advance, leaves no reveal timer and no auto-advance
\* timer pending that was armed before the item was presented, and never two
\* of a kind: there are no overlapping timer chains.
C24_NoOverlappingChains ==
    variant = "auto" =>
       /\ Pending(timeouts) <= 1
       /\ Pending(intervals) <= 1
       /\ current # Null => (timeouts.prev = 0 /\ intervals.prev = 0)

----------------------------------------------------------------------------
(* Claims on persistence and loading *)

\* the same unlocked count and the same window for every deck
KochEquivalent(a, b) ==
    /\ a # Thrown
    /\ \A d \in DictionaryLang :
          /\ a.kochIndexByDict[d] = b.kochIndexByDict[d]
          /\ a.recentAnswersByDict[d] = b.recentAnswersByDict[d]

\* the same per-item stats, totalAnswers and lastSessionAt
HistoryEquivalent(a, b) ==
    /\ a.statsById = b.statsById
    /\ a.totalAnswers = b.totalAnswers
    /\ a.lastSessionAt = b.lastSessionAt

C26_EmptySourceFails ==
    (variant = "recall" /\ ~isLoading /\ ~error) =>
        \A d \in DictionaryLang : Len(cardsOf[d]) > 0

\* what the component renders: the weighted trainer has the guards isLoading,
\* error and !current, the Koch trainers only the guard on current
Rendered ==
    IF variant = "recall"
    THEN IF isLoading THEN "loading"
         ELSE IF error THEN "error"
         ELSE IF current = Null THEN "placeholder"
         ELSE "card"
    ELSE IF current = Null THEN "loading" ELSE "card"

\* the fetch of the mounted trainer has failed
FetchFailed ==
    \/ variant = "recall" /\ ~isLoading /\ error
    \/ variant = "persist" /\ loading = "failed"

\* C27: when the item source cannot be fetched the trainer enters a terminal
\* error state: the error is shown and loading has ended, and as long as the
\* page is not opened again no item is presented and no fetch is started.
C27_FetchFailureTerminal ==
    [][/\ FetchFailed' => Rendered' = "error"
       /\ (FetchFailed /\ ~RemountP /\ ~RemountW) =>
             (FetchFailed' /\ current' = Null)]_vars

----------------------------------------------------------------------------
(* Claims on the parsers *)

\* the line of the text, trimmed
SourceLine == trim(txt[1])

\* everything after the first separator of the line, trimmed
AfterFirstSeparator ==
    trim(SubSeq(SourceLine, IndexOfSep(SourceLine) + 2, Len(SourceLine)))

\* C28: for every source line with at least one separator '<>', the
\* translation of the item parsed from it is everything after the first
\* separator, trimmed: a separator inside the translation is kept.
C28_TranslationKeepsSeparator ==
    (parsed # None /\ IndexOfSep(SourceLine) > 0) =>
        /\ \A k \in 1..Len(parsed[1].weighted) :
              parsed[1].weighted[k].other = AfterFirstSeparator
        /\ \A k \in 1..Len(parsed[1].koch) :
              parsed[1].koch[k].other = AfterFirstSeparator
        /\ \A k \in 1..Len(parsed[1].manual) :
              parsed[1].manual[k].right = AfterFirstSeparator

\* C29: parsing never constructs a partial item: every item of a parsed deck
\* has a non-empty prompt and a non-empty translation, a line that misses
\* either part being dropped.
C29_NoPartialItem ==
    parsed # None =>
        /\ \A k \in 1..Len(parsed[1].weighted) :
              /\ parsed[1].weighted[k].cs # <<>>
              /\ parsed[1].weighted[k].other # <<>>
        /\ \A k \in 1..Len(parsed[1].koch) :
              /\ parsed[1].koch[k].cs # <<>>
              /\ parsed[1].koch[k].other # <<>>
        /\ \A k \in 1..Len(parsed[1].manual) :
              /\ parsed[1].manual[k].left # <<>>
              /\ parsed[1].manual[k].right # <<>>

----------------------------------------------------------------------------
(* Claim of the test suite *)

UpperCase == <<"A", "B", "C", "D", "E", "F", "G", "H", "I", "J", "K", "L", "M", "N", "O", "P", "Q", "R", "S", "T", "U", "V", "W", "X", "Y", "Z">>
LowerCase == <<"a", "b", "c", "d", "e", "f", "g", "h", "i", "j", "k", "l", "m", "n", "o", "p", "q", "r", "s", "t", "u", "v", "w", "x", "y", "z">>

\* the character c in lower case, as the flag i of the pattern compares it
toLowerCase(c) ==
    IF \E i \in 1..Len(UpperCase) : UpperCase[i] = c
    THEN LowerCase[CHOOSE i \in 1..Len(UpperCase) : UpperCase[i] = c]
    ELSE c

\* /learn react/i
LearnReact == <<"l", "e", "a", "r", "n", " ", "r", "e", "a", "c", "t">>

\* the pattern matches the text t somewhere
MatchesLearnReact(t) ==
    \E i \in 1..(Len(t) - Len(LearnReact) + 1) :
        \A j \in 1..Len(LearnReact) :
            toLowerCase(t[i + j - 1]) = LearnReact[j]

\* the number n < 100 as text
NumberText(n) ==
    IF n < 10 THEN <<Digits[n + 1]>>
    ELSE <<Digits[(n \div 10) + 1], Digits[(n % 10) + 1]>>

\* the label of the button of dictionary d, the direction being lang2-cs
DictionaryLabel(d) ==
    IF d = dictLang
    THEN IF d = "en" THEN <<"E", "N", " ", "U+2192", " ", "C", "S">> ELSE <<"S", "V", " ", "U+2192", " ", "C", "S">>
    ELSE IF d = "sv" THEN <<"S", "W", " ", "U+2194", " ", "C", "Z">>
    ELSE IF d = "sv2" THEN <<"S", "W", "2", " ", "U+2194", " ", "C", "Z">>
    ELSE <<"C", "Z", " ", "U+2194", " ", "E", "N">>

\* the texts of the elements the weighted trainer renders, a character
\* outside ASCII written as its code point; a card shows its word other as
\* the question and its word cs as the translation
ScreenTexts ==
    IF Rendered = "loading" THEN {<<"L", "o", "a", "d", "i", "n", "g", "U+2026">>}
    ELSE IF Rendered = "error" THEN {<<"F", "a", "i", "l", "e", "d", " ", "t", "o", " ", "l", "o", "a", "d", " ", "v", "o", "c", "a", "b", "u", "l", "a", "r", "y", " ", "f", "i", "l", "e", "s", ".">>}
    ELSE IF Rendered = "placeholder" THEN {<<"U+2014">>}
    ELSE {DictionaryLabel(d) : d \in DictionaryLang}
            \cup {<<"o">>, <<"K", "n", "o", "w">>, <<"D", "o", "n", "'", "t", " ", "k", "n", "o", "w">>,
                  <<"V", "e", "t", ":", " ">> \o NumberText(stats(dictLang, history).known),
                  <<"V", "e", "t", "t", "e", ":", " ">> \o NumberText(stats(dictLang, history).unknown)}
            \cup (IF showTranslation THEN {<<"c", "s">>} ELSE {})

\* C30: rendering the Dictionary component displays an element whose text
\* matches 'learn react', whatever the case of the letters.
C30_RendersLearnReact ==
    variant = "recall" => \E t \in ScreenTexts : MatchesLearnReact(t)

----------------------------------------------------------------------------
(* Claims on the order of recording and selecting *)

\* C31: the item selected in the step of an answer is the weighted draw over
\* the deck with the weights of the history that already holds that answer
\* (the answered item's incremented counts and its new last-answer time).
C31_PickUsesUpdatedHistory ==
    [][\A o \in {"known", "unknown"}, k \in Draws :
          (applyAnswerW(o, k) /\ storeOk /\ Len(currentCards) > 0) =>
             current' = DrawnFrom(dictLang, history', k)]_vars

RECURSIVE SumSeenOver(_, _)
\* the sum of seen over the stats of h stored under the keys ks
SumSeenOver(h, ks) ==
    IF ks = {} THEN 0
    ELSE LET k == CHOOSE x \in ks : TRUE
         IN h.statsById[k].seen + SumSeenOver(h, ks \ {k})

\* the sum of seen over all stats of h
SumSeen(h) == SumSeenOver(h, DOMAIN h.statsById)

\* C32: starting from an empty history, totalAnswers equals the number of
\* answer actions performed on a current item and the sum of seen over all
\* stats, in every reachable state, also when two answer actions run against
\* the state of one render.
C32_NoAnswerLost ==
    variant = "recall" =>
       /\ history.totalAnswers = performed
       /\ history.totalAnswers = SumSeen(history)

----------------------------------------------------------------------------
(* Claims on switching the dictionary *)

\* the dictionary the card c was parsed from
DictOf(c) == c[1]

\* the dictionary selected in the mounted trainer
Selected == IF variant = "recall" THEN dictLang ELSE dictionary

\* C33: an item on screen belongs to the deck of the selected dictionary, also
\* after a switch while the deck of the new dictionary is loading.
C33_ShownFromSelected ==
    (variant \in {"auto", "recall"} /\ current # Null) =>
       DictOf(current) = Selected

\* C34: once every fetch started by the mount and by the dictionary switches
\* has resolved, the deck in use is the deck of the selected dictionary,
\* whatever order the fetches resolved in.
C34_DeckOfSelected ==
    (variant \in {"timed", "auto"} /\ inFlight = {} /\ Len(cards) > 0) =>
       DictOf(cards[1]) = dictionary

----------------------------------------------------------------------------
(* Claim on unmounting *)

\* C35: after the trainer has unmounted no reveal timeout is pending, at
\* whatever moment it unmounted, before the end of the load included.
C35_NoTimerAfterUnmount ==
    variant = "unmounted" => Pending(timeouts) = 0

----------------------------------------------------------------------------
(* Claim on the tap game *)

\* C36: the tap game changes state only by: tap in idle or result -> waiting;
\* tap in waiting -> idle, which leaves no delay timer pending; delay timer
\* in waiting -> ready; tap in ready -> result.  Each tap takes exactly one of
\* them, and reactionTime is non-null exactly in state result.
C36_TapTransitions ==
    [][variant = "tap" =>
          /\ handleTap =>
                \/ tapState \in {"idle", "result"} /\ tapState' = "waiting"
                \/ tapState = "waiting" /\ tapState' = "idle" /\ delayTimer' = 0
                \/ tapState = "ready" /\ tapState' = "result"
          /\ (tapState' # tapState /\ ~handleTap) =>
                DelayFire /\ tapState = "waiting" /\ tapState' = "ready"
          /\ (reactionTime' # None) <=> (tapState' = "result")]_vars

\* C36 witness: a round was played to its end: the result is on screen with a
\* reaction time of two clock readings, and no delay timer is pending.
C36_Witness ==
    /\ variant = "tap"
    /\ tapState = "result"
    /\ reactionTime = Some(2)
    /\ startTime > 0
    /\ delayTimer = 0

\* C37: in the manual trainer the first press of More words, once the words
\* are ready, starts the presentation loop: a pair is eventually displayed.
C37_FirstPressStartsLoop ==
    (variant = "manual" /\ ready /\ Len(activePairs) >= FIRST_PAIRS)
        ~> (currentPair # Null)

\* the manual trainer never holds a showLoop timeout and never shows a pair
LoopNeverArmed ==
    variant = "manual" =>
        /\ ~loopTimeout
        /\ stepTimeouts = [reveal |-> 0, blank |-> 0]
        /\ currentPair = Null
        /\ previousIndex = None

PairsIn(list) == {list[a] : a \in 1..Len(list)}

NoDuplicates(list) == Cardinality(PairsIn(list)) = Len(list)

\* C38: the active set of the manual trainer starts with four distinct pairs
\* of the loaded twenty, every later press adds exactly one pair that was not
\* active, the set never holds a pair twice nor more than twenty, and a press
\* while not ready, after an error or at twenty pairs leaves it unchanged.
C38_ActiveSetGrowth ==
    [][variant = "manual" =>
          /\ NoDuplicates(activePairs')
          /\ Len(activePairs') <= PAIRS_SELECTED
          /\ PairsIn(activePairs') \subseteq PairsIn(allPairs')
          /\ \/ activePairs' = activePairs
             \/ /\ ready /\ ~failed
                /\ Len(activePairs) = 0
                /\ Len(activePairs') = FIRST_PAIRS
             \/ /\ ready /\ ~failed
                /\ Len(activePairs) \in 1..(PAIRS_SELECTED - 1)
                /\ Len(activePairs') = Len(activePairs) + 1
                /\ SubSeq(activePairs', 1, Len(activePairs)) = activePairs
          /\ (~ready \/ failed \/ Len(activePairs) >= PAIRS_SELECTED)
                => activePairs' = activePairs]_vars

C38_Witness ==
    /\ variant = "manual"
    /\ ready
    /\ Len(activePairs) = PAIRS_SELECTED
    /\ activePairs # allPairs

====
